---- MODULE Spec2Model ----
(***************************************************************************)
(* Model of the ground-station bridge daemon (uart/uds bridge): the 64-bit *)
(* instruction codec, the UART frame parser, the JSON command handler and  *)
(* the pieces of the embedded receiver the bridge talks to.                *)
(*                                                                         *)
(* A uint64_t is modelled as the set of its bit positions that are 1       *)
(* (a subset of 0..63), so that 64-bit values never leave the range of     *)
(* the model checker's integers. Narrow values (at most 31 bits) are       *)
(* ordinary naturals.                                                      *)
(***************************************************************************)
EXTENDS Integers, Sequences, FiniteSets, TLC

VARIABLES
    codec,      \* the codec call under test: [fn, args, done, out]
    up,         \* UartParser of main(): [st, len, payload, idx]
    uart_rx,    \* bytes waiting in the serial device's receive buffer
    rx,         \* every byte fed to uart_parser_feed so far, in order
    words,      \* words uart_parser_feed returned 1 for: [at, word]
    reads,      \* number of read() calls on the serial device so far
    line,       \* what the radio link still has to deliver / link faults left
    call,       \* last handle_node_json call: [json, uart, uds, ret]
    esp,        \* the embedded receiver: line buffer, command queue, bytes on the air
    br,         \* the bridge process: position in main(), uds_client, serial writes
    node,   \* control-channel connections made by Node-side clients, in order
    ws          \* the useWebSocket hook: sockets, refs, reconnect timers, message queue

vars == <<codec, up, uart_rx, rx, words, reads, line, call, esp, br, node, ws>>

---------------------------------------------------------------------------
(* Bit helpers over uint64_t seen as sets of 1-bit positions.              *)

WordBits == 64

\* The bits of a natural below 2^31, as a uint64_t.
U64(v) == {i \in 0..30 : (v \div (2^i)) % 2 = 1}

RECURSIVE ValOf(_)
\* The natural a set of bit positions below 31 stands for.
ValOf(S) == IF S = {} THEN 0
            ELSE LET i == CHOOSE x \in S : TRUE IN (2^i) + ValOf(S \ {i})

\* w << n on uint64_t: bits shifted past bit 63 are lost.
Shl(w, n) == {i + n : i \in {j \in w : j + n < WordBits}}

\* w >> n on uint64_t.
Shr(w, n) == {i - n : i \in {j \in w : j >= n}}

\* a | b and a & b.
BitOr(a, b) == a \cup b
BitAnd(a, b) == a \cap b

\* (1ULL << nbits) - 1ULL
LowMask(nbits) == 0..(nbits - 1)

\* (uint8_t)v, (uint16_t)v, (uint32_t)w
ToU8(v) == v % 256
ToU16(v) == v % 65536
ToU32(w) == BitAnd(w, 0..31)

\* a ^ b on bytes.
Xor8(a, b) == ValOf({i \in 0..7 : ((a \div (2^i)) % 2) # ((b \div (2^i)) % 2)})

get_bits_u32(w, lo, nbits) == ValOf(ToU32(BitAnd(Shr(w, lo), LowMask(nbits))))

---------------------------------------------------------------------------
(* Message type discriminants (bits 0..4).                                 *)

TYPE_C == 1
TYPE_P == 2
TYPE_S == 3
TYPE_Q == 4
TYPE_SR == 5
TYPE_HR == 6
TYPE_A == 7
TYPE_HPR == 8

---------------------------------------------------------------------------
(* Packers. Parameters are the C parameters after conversion to their      *)
(* declared types (uint8_t / uint16_t); instr_spec is a uint32_t given as  *)
(* a bit set within 0..31.                                                 *)

\* A packer that puts the priority level one bit too low.
pack_C_lowpl(w, a, s, d, speed_0_100, pl_0_3) ==
    LET w0 == {}
        w1 == BitOr(w0, Shl(BitAnd(U64(TYPE_C), U64(31)), 0))
        w2 == BitOr(w1, Shl(BitAnd(U64(w), U64(1)), 5))
        w3 == BitOr(w2, Shl(BitAnd(U64(a), U64(1)), 6))
        w4 == BitOr(w3, Shl(BitAnd(U64(s), U64(1)), 7))
        w5 == BitOr(w4, Shl(BitAnd(U64(d), U64(1)), 8))
        w6 == BitOr(w5, Shl(BitAnd(U64(speed_0_100), U64(127)), 9))
        w7 == BitOr(w6, Shl(BitAnd(U64(pl_0_3), U64(3)), 15))
    IN  w7

\* A packer that puts the speed one bit too low.
pack_C_speed8(w, a, s, d, speed_0_100, pl_0_3) ==
    LET w0 == {}
        w1 == BitOr(w0, Shl(BitAnd(U64(TYPE_C), U64(31)), 0))
        w2 == BitOr(w1, Shl(BitAnd(U64(w), U64(1)), 5))
        w3 == BitOr(w2, Shl(BitAnd(U64(a), U64(1)), 6))
        w4 == BitOr(w3, Shl(BitAnd(U64(s), U64(1)), 7))
        w5 == BitOr(w4, Shl(BitAnd(U64(d), U64(1)), 8))
        w6 == BitOr(w5, Shl(BitAnd(U64(speed_0_100), U64(127)), 8))
        w7 == BitOr(w6, Shl(BitAnd(U64(pl_0_3), U64(3)), 16))
    IN  w7

pack_C(w, a, s, d, speed_0_100, pl_0_3) ==
    LET w0 == {}
        w1 == BitOr(w0, Shl(BitAnd(U64(TYPE_C), U64(31)), 0))
        w2 == BitOr(w1, Shl(BitAnd(U64(w), U64(1)), 5))
        w3 == BitOr(w2, Shl(BitAnd(U64(a), U64(1)), 6))
        w4 == BitOr(w3, Shl(BitAnd(U64(s), U64(1)), 7))
        w5 == BitOr(w4, Shl(BitAnd(U64(d), U64(1)), 8))
        w6 == BitOr(w5, Shl(BitAnd(U64(speed_0_100), U64(127)), 9))
        w7 == BitOr(w6, Shl(BitAnd(U64(pl_0_3), U64(3)), 16))
    IN  w7

pack_P(instr_0_15, pl_0_3, id_0_2047) ==
    LET w0 == {}
        w1 == BitOr(w0, Shl(BitAnd(U64(TYPE_P), U64(31)), 0))
        w2 == BitOr(w1, Shl(BitAnd(U64(instr_0_15), U64(15)), 5))
        w3 == BitOr(w2, Shl(BitAnd(U64(pl_0_3), U64(3)), 9))
        w4 == BitOr(w3, Shl(BitAnd(U64(id_0_2047), U64(4095)), 11))
    IN  w4

pack_S(instr_0_15, ac_0_1023, pl_0_3, id_0_2047, instr_spec) ==
    LET w0 == {}
        w1 == BitOr(w0, Shl(BitAnd(U64(TYPE_S), U64(31)), 0))
        w2 == BitOr(w1, Shl(BitAnd(U64(instr_0_15), U64(15)), 5))
        w3 == BitOr(w2, Shl(BitAnd(U64(ac_0_1023), U64(1023)), 9))
        w4 == BitOr(w3, Shl(BitAnd(U64(pl_0_3), U64(3)), 19))
        w5 == BitOr(w4, Shl(BitAnd(U64(id_0_2047), U64(2047)), 21))
        w6 == BitOr(w5, Shl(instr_spec, 32))
    IN  w6

pack_Q(instr_0_15, pl_0_3, id_0_2047, report_on) ==
    LET w0 == {}
        w1 == BitOr(w0, Shl(BitAnd(U64(TYPE_Q), U64(31)), 0))
        w2 == BitOr(w1, Shl(BitAnd(U64(instr_0_15), U64(15)), 5))
        w3 == BitOr(w2, Shl(BitAnd(U64(pl_0_3), U64(3)), 9))
        w4 == BitOr(w3, Shl(BitAnd(U64(id_0_2047), U64(4095)), 11))
        w5 == BitOr(w4, Shl(BitAnd(U64(report_on), U64(1)), 23))
    IN  w5

---------------------------------------------------------------------------
(* Unpackers: [ret, out]; out is meaningful only when ret = 0.             *)

NoFields == [none |-> TRUE]

\* An unpacker that accepts every discriminant.
unpack_SR_nocheck(w) ==
    [ret |-> 0,
     out |-> [speed    |-> ToU8(get_bits_u32(w, 5, 7)),
              state    |-> ToU8(get_bits_u32(w, 12, 1)),
              motor    |-> ToU8(get_bits_u32(w, 13, 1)),
              robot_id |-> ToU8(get_bits_u32(w, 14, 2)),
              curr_pos |-> ValOf(ToU32(BitAnd(Shr(w, 16), LowMask(31))))]]

unpack_SR(w) ==
    LET type == ToU8(get_bits_u32(w, 0, 5)) IN
    IF type # TYPE_SR THEN [ret |-> -1, out |-> NoFields]
    ELSE [ret |-> 0,
          out |-> [speed    |-> ToU8(get_bits_u32(w, 5, 7)),
                   state    |-> ToU8(get_bits_u32(w, 12, 1)),
                   motor    |-> ToU8(get_bits_u32(w, 13, 1)),
                   robot_id |-> ToU8(get_bits_u32(w, 14, 2)),
                   curr_pos |-> ValOf(ToU32(BitAnd(Shr(w, 16), LowMask(31))))]]

unpack_HR(w) ==
    LET type == ToU8(get_bits_u32(w, 0, 5)) IN
    IF type # TYPE_HR THEN [ret |-> -1, out |-> NoFields]
    ELSE [ret |-> 0,
          out |-> [battery  |-> ToU8(get_bits_u32(w, 5, 7)),
                   signal   |-> ToU8(get_bits_u32(w, 12, 6)),
                   security |-> ToU8(get_bits_u32(w, 18, 2)),
                   name_id  |-> ToU16(get_bits_u32(w, 20, 12))]]

---------------------------------------------------------------------------
(* UART frame parser.                                                      *)

UART_PREAMBLE_0 == 170
UART_PREAMBLE_1 == 85
UART_PAYLOAD_LEN == 8

ST_SYNC0 == "ST_SYNC0"
ST_SYNC1 == "ST_SYNC1"
ST_LEN == "ST_LEN"
ST_PAYLOAD == "ST_PAYLOAD"
ST_XOR == "ST_XOR"

RECURSIVE xor8(_, _)
\* XOR of p[0..n-1], accumulated left to right.
xor8(p, n) == IF n = 0 THEN 0 ELSE Xor8(xor8(p, n - 1), p[n - 1])

RECURSIVE be_to_u64_loop(_, _)
\* w after the first i iterations of be_to_u64's loop.
be_to_u64_loop(in, i) ==
    IF i = 0 THEN {}
    ELSE BitOr(Shl(be_to_u64_loop(in, i - 1), 8), U64(in[i - 1]))

\* A conversion that takes in[0] as the least significant byte.
be_to_u64_le(in) ==
    {8 * k + j : <<k, j>> \in {x \in (0..7) \X (0..7) : (in[x[1]] \div (2^x[2])) % 2 = 1}}

be_to_u64(in) == be_to_u64_loop(in, 8)

uart_parser_init ==
    [st |-> ST_SYNC0, len |-> 0, payload |-> [i \in 0..7 |-> 0], idx |-> 0]

\* A parser that, on a checksum mismatch, still hands the payload out.
uart_parser_feed_nocheck(p, byte, out_word) ==
    CASE p.st = ST_SYNC0 ->
           [p |-> IF byte = UART_PREAMBLE_0 THEN [p EXCEPT !.st = ST_SYNC1] ELSE p,
            ret |-> 0, out_word |-> out_word]
      [] p.st = ST_SYNC1 ->
           [p |-> IF byte = UART_PREAMBLE_1 THEN [p EXCEPT !.st = ST_LEN]
                  ELSE [p EXCEPT !.st = ST_SYNC0],
            ret |-> 0, out_word |-> out_word]
      [] p.st = ST_LEN ->
           [p |-> IF byte # 8 THEN [p EXCEPT !.len = byte, !.st = ST_SYNC0]
                  ELSE [p EXCEPT !.len = byte, !.idx = 0, !.st = ST_PAYLOAD],
            ret |-> 0, out_word |-> out_word]
      [] p.st = ST_PAYLOAD ->
           LET q == [p EXCEPT !.payload[p.idx] = byte, !.idx = p.idx + 1] IN
           [p |-> IF q.idx >= 8 THEN [q EXCEPT !.st = ST_XOR] ELSE q,
            ret |-> 0, out_word |-> out_word]
      [] p.st = ST_XOR ->
           [p |-> [p EXCEPT !.st = ST_SYNC0], ret |-> 1,
            out_word |-> be_to_u64(p.payload)]

\* A parser that stays in ST_XOR when the checksum does not match.
uart_parser_feed_noreset(p, byte, out_word) ==
    CASE p.st = ST_SYNC0 ->
           [p |-> IF byte = UART_PREAMBLE_0 THEN [p EXCEPT !.st = ST_SYNC1] ELSE p,
            ret |-> 0, out_word |-> out_word]
      [] p.st = ST_SYNC1 ->
           [p |-> IF byte = UART_PREAMBLE_1 THEN [p EXCEPT !.st = ST_LEN]
                  ELSE [p EXCEPT !.st = ST_SYNC0],
            ret |-> 0, out_word |-> out_word]
      [] p.st = ST_LEN ->
           [p |-> IF byte # 8 THEN [p EXCEPT !.len = byte, !.st = ST_SYNC0]
                  ELSE [p EXCEPT !.len = byte, !.idx = 0, !.st = ST_PAYLOAD],
            ret |-> 0, out_word |-> out_word]
      [] p.st = ST_PAYLOAD ->
           LET q == [p EXCEPT !.payload[p.idx] = byte, !.idx = p.idx + 1] IN
           [p |-> IF q.idx >= 8 THEN [q EXCEPT !.st = ST_XOR] ELSE q,
            ret |-> 0, out_word |-> out_word]
      [] p.st = ST_XOR ->
           LET want == xor8(p.payload, 8) IN
           IF byte # want
           THEN [p |-> p, ret |-> 0, out_word |-> out_word]
           ELSE [p |-> [p EXCEPT !.st = ST_SYNC0], ret |-> 1,
                 out_word |-> be_to_u64(p.payload)]

\* Feed one byte: [p, ret, out_word], out_word being *out_word after the call.
uart_parser_feed(p, byte, out_word) ==
    CASE p.st = ST_SYNC0 ->
           [p |-> IF byte = UART_PREAMBLE_0 THEN [p EXCEPT !.st = ST_SYNC1] ELSE p,
            ret |-> 0, out_word |-> out_word]
      [] p.st = ST_SYNC1 ->
           [p |-> IF byte = UART_PREAMBLE_1 THEN [p EXCEPT !.st = ST_LEN]
                  ELSE [p EXCEPT !.st = ST_SYNC0],
            ret |-> 0, out_word |-> out_word]
      [] p.st = ST_LEN ->
           [p |-> IF byte # 8 THEN [p EXCEPT !.len = byte, !.st = ST_SYNC0]
                  ELSE [p EXCEPT !.len = byte, !.idx = 0, !.st = ST_PAYLOAD],
            ret |-> 0, out_word |-> out_word]
      [] p.st = ST_PAYLOAD ->
           LET q == [p EXCEPT !.payload[p.idx] = byte, !.idx = p.idx + 1] IN
           [p |-> IF q.idx >= 8 THEN [q EXCEPT !.st = ST_XOR] ELSE q,
            ret |-> 0, out_word |-> out_word]
      [] p.st = ST_XOR ->
           LET want == xor8(p.payload, 8) IN
           IF byte # want
           THEN [p |-> [p EXCEPT !.st = ST_SYNC0], ret |-> 0, out_word |-> out_word]
           ELSE [p |-> [p EXCEPT !.st = ST_SYNC0], ret |-> 1,
                 out_word |-> be_to_u64(p.payload)]

\* A read loop that starts every read() with a fresh parser.
RECURSIVE feed_loop_reinit(_, _, _)
feed_loop_reinit(p, tmp, n) ==
    IF n = 0 THEN [p |-> uart_parser_init, got |-> <<>>]
    ELSE LET prev == feed_loop_reinit(p, tmp, n - 1)
             r == uart_parser_feed(prev.p, tmp[n], {})
         IN  [p |-> r.p,
              got |-> IF r.ret = 1
                      THEN Append(prev.got, [at |-> n, word |-> r.out_word])
                      ELSE prev.got]

RECURSIVE feed_loop(_, _, _)
\* main()'s loop over the n bytes one read() returned (tmp is 1-based here):
\* the parser after it and the words it completed, each with the index of
\* the byte that completed it. word starts at 0 for every byte.
feed_loop(p, tmp, n) ==
    IF n = 0 THEN [p |-> p, got |-> <<>>]
    ELSE LET prev == feed_loop(p, tmp, n - 1)
             r == uart_parser_feed(prev.p, tmp[n], {})
         IN  [p |-> r.p,
              got |-> IF r.ret = 1
                      THEN Append(prev.got, [at |-> n, word |-> r.out_word])
                      ELSE prev.got]

UART_READ_BUF == 256

---------------------------------------------------------------------------
(* Commands from the Node side: a parsed JSON text as cJSON hands it over, *)
(* the field helpers and the two senders.                                  *)

\* cJSON items. A number carries valueint and valuedouble; the double is
\* kept as sign and two limbs, hi * 65536 + lo, since it can exceed 2^31.
\* The numbers used are integers.
Absent == [k |-> "absent"]
JStr(s) == [k |-> "string", valuestring |-> s]
JArr(items) == [k |-> "array", items |-> items]
JNum(v) ==
    LET m == IF v < 0 THEN 0 - v ELSE v
    IN  [k |-> "number", valueint |-> v,
         valuedouble |-> [neg |-> v < 0, hi |-> m \div 65536, lo |-> m % 65536]]
\* A number of 2^31 or more: cJSON saturates valueint at INT_MAX.
JBig(hi, lo) ==
    [k |-> "number", valueint |-> 2147483647,
     valuedouble |-> [neg |-> FALSE, hi |-> hi, lo |-> lo]]

JsonKeys == {"type", "forward", "backward", "left", "right", "speed",
             "priority_level", "id", "instruction", "actions", "ac",
             "instruction_specific", "report"}

\* What cJSON_Parse returns: NULL for a text that is not JSON, else the root.
BadJson == [kind |-> "invalid"]
NoJson == [kind |-> "none"]
JObj(fields) ==
    [kind |-> "object",
     f |-> [k \in JsonKeys |-> IF k \in DOMAIN fields THEN fields[k] ELSE Absent]]

cJSON_GetObjectItemCaseSensitive(obj, key) ==
    IF obj.kind = "object" THEN obj.f[key] ELSE Absent
cJSON_IsNumber(it) == it.k = "number"
cJSON_IsString(it) == it.k = "string"
cJSON_IsArray(it) == it.k = "array"

\* json_get_u8 without its range check.
json_get_u8_norange(obj, key, minv, maxv) ==
    LET it == cJSON_GetObjectItemCaseSensitive(obj, key)
    IN  IF ~cJSON_IsNumber(it) THEN [rc |-> -1, out |-> 0]
        ELSE [rc |-> 0, out |-> ToU8(it.valueint)]

json_get_u8(obj, key, minv, maxv) ==
    LET it == cJSON_GetObjectItemCaseSensitive(obj, key)
    IN  IF ~cJSON_IsNumber(it) THEN [rc |-> -1, out |-> 0]
        ELSE LET v == it.valueint
             IN  IF v < minv \/ v > maxv THEN [rc |-> -2, out |-> 0]
                 ELSE [rc |-> 0, out |-> ToU8(v)]

json_get_u16(obj, key, minv, maxv) ==
    LET it == cJSON_GetObjectItemCaseSensitive(obj, key)
    IN  IF ~cJSON_IsNumber(it) THEN [rc |-> -1, out |-> 0]
        ELSE LET v == it.valueint
             IN  IF v < minv \/ v > maxv THEN [rc |-> -2, out |-> 0]
                 ELSE [rc |-> 0, out |-> ToU16(v)]

\* out is a 32-bit value, kept as the set of its 1 bits.
json_get_u32(obj, key) ==
    LET it == cJSON_GetObjectItemCaseSensitive(obj, key)
    IN  IF ~cJSON_IsNumber(it) THEN [rc |-> -1, out |-> {}]
        ELSE LET dv == it.valuedouble
             IN  IF (dv.neg /\ (dv.hi > 0 \/ dv.lo > 0)) \/ dv.hi > 65535
                 THEN [rc |-> -2, out |-> {}]
                 ELSE [rc |-> 0,
                       out |-> ToU32(BitOr(Shl(U64(dv.hi), 16), U64(dv.lo)))]

\* ASCII codes of the characters put on the serial line.
CH_0 == 48
CH_1 == 49
CH_CR == 13
UART_LINE_LEN == 65

\* What one write() returns: n bytes taken, or -1 with errno. A write takes
\* no more than it is given.
FullWrite == [n |-> 255, errno |-> "none"]
Taken(wr, len) == IF wr.n > len THEN len ELSE wr.n
\* A write that fails, is not ready, or is short.
UartFaults == {[n |-> -1, errno |-> "EAGAIN"], [n |-> -1, errno |-> "EIO"],
               [n |-> 0, errno |-> "none"], [n |-> 64, errno |-> "none"]}

\* uart_send_word with the least significant bit first.
uart_send_word_lsb(instruction, wr) ==
    LET bit_string == [i \in 1..64 |-> IF (i - 1) \in instruction
                                       THEN CH_1 ELSE CH_0] \o <<CH_CR>>
        n == Taken(wr, UART_LINE_LEN)
    IN  [buf |-> bit_string, n |-> n,
         ret |-> IF n < 0 THEN (IF wr.errno = "EAGAIN" THEN 0 ELSE -1)
                 ELSE IF n # UART_LINE_LEN THEN -1
                 ELSE 0]

\* uart_send_word that reports a write that is not ready as a failure.
uart_send_word_strict(instruction, wr) ==
    LET bit_string == [i \in 1..64 |-> IF (63 - (i - 1)) \in instruction
                                       THEN CH_1 ELSE CH_0] \o <<CH_CR>>
        n == Taken(wr, UART_LINE_LEN)
    IN  [buf |-> bit_string, n |-> n,
         ret |-> IF n # UART_LINE_LEN THEN -1 ELSE 0]

\* The 64 bits of the word, most significant first, then '\r', in one
\* write of 65 bytes.
uart_send_word(instruction, wr) ==
    LET bit_string == [i \in 1..64 |-> IF (63 - (i - 1)) \in instruction
                                       THEN CH_1 ELSE CH_0] \o <<CH_CR>>
        n == Taken(wr, UART_LINE_LEN)
    IN  [buf |-> bit_string, n |-> n,
         ret |-> IF n < 0 THEN (IF wr.errno = "EAGAIN" THEN 0 ELSE -1)
                 ELSE IF n # UART_LINE_LEN THEN -1
                 ELSE 0]

\* Length prefix (4 bytes, big-endian) then the text, in two writes; the
\* second is not attempted when the first is not complete.
uds_send_json(json, wr) ==
    LET len == Len(json)
        len_be == <<(len \div 16777216) % 256, (len \div 65536) % 256,
                    (len \div 256) % 256, len % 256>>
        n1 == Taken(wr[1], 4)
        n2 == Taken(wr[2], len)
    IN  IF n1 # 4
        THEN [json |-> json, writes |-> <<[buf |-> len_be, n |-> n1]>>, ret |-> -1]
        ELSE [json |-> json,
              writes |-> <<[buf |-> len_be, n |-> n1], [buf |-> json, n |-> n2]>>,
              ret |-> IF n2 # len THEN -1 ELSE 0]

ERR_BAD_JSON == "{\"type\":\"ERR\",\"msg\":\"bad json\"}"
ERR_MISSING_TYPE == "{\"type\":\"ERR\",\"msg\":\"missing type\"}"
ERR_BAD_C == "{\"type\":\"ERR\",\"msg\":\"bad C fields\"}"
ERR_BAD_P == "{\"type\":\"ERR\",\"msg\":\"bad P fields\"}"
ERR_P_RANGE == "{\"type\":\"ERR\",\"msg\":\"P instruction out of range\"}"
ERR_P_REQUIRES == "{\"type\":\"ERR\",\"msg\":\"P requires instruction or actions[]\"}"
ERR_BAD_S == "{\"type\":\"ERR\",\"msg\":\"bad S fields\"}"
ERR_BAD_Q == "{\"type\":\"ERR\",\"msg\":\"bad Q fields\"}"
ERR_UNKNOWN_TYPE == "{\"type\":\"ERR\",\"msg\":\"unknown type\"}"

\* The result of the k-th write to the serial device in one call.
UartWrite(oracle, k) ==
    IF k \in DOMAIN oracle.uart THEN oracle.uart[k] ELSE FullWrite

\* What one call did: its return value, the writes to the serial device, the
\* messages sent to the Node side and the packer calls (function, arguments,
\* word) in order.
Did(ret, uart, uds, packed) ==
    [ret |-> ret, uart |-> uart, uds |-> uds, packed |-> packed]

RECURSIVE pose_actions_clip(_, _, _, _, _)
\* An actions loop that packs out-of-range numbers too.
pose_actions_clip(items, n, pl, id, oracle) ==
    IF n = 0 THEN [uart |-> <<>>, packed |-> <<>>]
    ELSE LET prev == pose_actions_clip(items, n - 1, pl, id, oracle)
             ai == items[n]
         IN  IF ~cJSON_IsNumber(ai) THEN prev
             ELSE LET w == pack_P(ToU8(ai.valueint), pl, id)
                  IN  [uart |-> Append(prev.uart,
                                       uart_send_word(w, UartWrite(oracle, Len(prev.uart) + 1))),
                       packed |-> Append(prev.packed,
                                         [fn |-> "pack_P",
                                          args |-> <<ToU8(ai.valueint), pl, id>>,
                                          word |-> w])]

RECURSIVE pose_actions(_, _, _, _, _)
\* The loop over "actions": items that are not numbers or not 0..15 are
\* skipped, every other one is packed and sent on its own.
pose_actions(items, n, pl, id, oracle) ==
    IF n = 0 THEN [uart |-> <<>>, packed |-> <<>>]
    ELSE LET prev == pose_actions(items, n - 1, pl, id, oracle)
             ai == items[n]
         IN  IF ~cJSON_IsNumber(ai) THEN prev
             ELSE IF ai.valueint < 0 \/ ai.valueint > 15 THEN prev
             ELSE LET w == pack_P(ToU8(ai.valueint), pl, id)
                  IN  [uart |-> Append(prev.uart,
                                       uart_send_word(w, UartWrite(oracle, Len(prev.uart) + 1))),
                       packed |-> Append(prev.packed,
                                         [fn |-> "pack_P",
                                          args |-> <<ToU8(ai.valueint), pl, id>>,
                                          word |-> w])]

\* A Control branch that reports bad fields and still transmits the rest.
handle_C_partial(root, oracle) ==
    LET f == json_get_u8(root, "forward", 0, 1)
        b == json_get_u8(root, "backward", 0, 1)
        l == json_get_u8(root, "left", 0, 1)
        r == json_get_u8(root, "right", 0, 1)
        speed == json_get_u8(root, "speed", 0, 100)
        pl == json_get_u8(root, "priority_level", 0, 3)
        w == pack_C(f.out, l.out, b.out, r.out, speed.out, pl.out)
        bad == f.rc # 0 \/ b.rc # 0 \/ l.rc # 0 \/ r.rc # 0 \/ speed.rc # 0 \/ pl.rc # 0
    IN  Did(IF bad THEN -1 ELSE 0,
            <<uart_send_word(w, UartWrite(oracle, 1))>>,
            IF bad THEN <<uds_send_json(ERR_BAD_C, oracle.uds)>> ELSE <<>>,
            <<[fn |-> "pack_C",
               args |-> <<f.out, l.out, b.out, r.out, speed.out, pl.out>>,
               word |-> w]>>)

handle_C(root, oracle) ==
    LET f == json_get_u8(root, "forward", 0, 1)
        b == json_get_u8(root, "backward", 0, 1)
        l == json_get_u8(root, "left", 0, 1)
        r == json_get_u8(root, "right", 0, 1)
        speed == json_get_u8(root, "speed", 0, 100)
        pl == json_get_u8(root, "priority_level", 0, 3)
    IN  IF f.rc # 0 \/ b.rc # 0 \/ l.rc # 0 \/ r.rc # 0 \/ speed.rc # 0 \/ pl.rc # 0
        THEN Did(-1, <<>>, <<uds_send_json(ERR_BAD_C, oracle.uds)>>, <<>>)
        ELSE LET w == pack_C(f.out, l.out, b.out, r.out, speed.out, pl.out)
             IN  Did(0, <<uart_send_word(w, UartWrite(oracle, 1))>>, <<>>,
                     <<[fn |-> "pack_C",
                        args |-> <<f.out, l.out, b.out, r.out, speed.out, pl.out>>,
                        word |-> w]>>)

handle_P(root, oracle) ==
    LET pl == json_get_u8(root, "priority_level", 0, 3)
        id == json_get_u16(root, "id", 0, 2047)
        instr == cJSON_GetObjectItemCaseSensitive(root, "instruction")
        actions == cJSON_GetObjectItemCaseSensitive(root, "actions")
    IN  IF pl.rc # 0 \/ id.rc # 0
        THEN Did(-1, <<>>, <<uds_send_json(ERR_BAD_P, oracle.uds)>>, <<>>)
        ELSE IF cJSON_IsNumber(instr)
        THEN LET op == instr.valueint
             IN  IF op < 0 \/ op > 15
                 THEN Did(0, <<>>, <<uds_send_json(ERR_P_RANGE, oracle.uds)>>, <<>>)
                 ELSE LET w == pack_P(ToU8(op), pl.out, id.out)
                      IN  Did(0, <<uart_send_word(w, UartWrite(oracle, 1))>>, <<>>,
                              <<[fn |-> "pack_P", args |-> <<ToU8(op), pl.out, id.out>>,
                                 word |-> w]>>)
        ELSE IF cJSON_IsArray(actions)
        THEN LET sent == pose_actions(actions.items, Len(actions.items),
                                      pl.out, id.out, oracle)
             IN  Did(0, sent.uart, <<>>, sent.packed)
        ELSE Did(0, <<>>, <<uds_send_json(ERR_P_REQUIRES, oracle.uds)>>, <<>>)

handle_S(root, oracle) ==
    LET instr == json_get_u8(root, "instruction", 0, 15)
        ac == json_get_u16(root, "ac", 0, 1023)
        pl == json_get_u8(root, "priority_level", 0, 3)
        id == json_get_u16(root, "id", 0, 2047)
        spec == json_get_u32(root, "instruction_specific")
    IN  IF instr.rc # 0 \/ ac.rc # 0 \/ pl.rc # 0 \/ id.rc # 0 \/ spec.rc # 0
        THEN Did(-1, <<>>, <<uds_send_json(ERR_BAD_S, oracle.uds)>>, <<>>)
        ELSE LET w == pack_S(instr.out, ac.out, pl.out, id.out, spec.out)
             IN  Did(0, <<uart_send_word(w, UartWrite(oracle, 1))>>, <<>>,
                     <<[fn |-> "pack_S",
                        args |-> <<instr.out, ac.out, pl.out, id.out, spec.out>>,
                        word |-> w]>>)

handle_Q(root, oracle) ==
    LET instr == json_get_u8(root, "instruction", 0, 15)
        report == json_get_u8(root, "report", 0, 1)
        pl == json_get_u8(root, "priority_level", 0, 3)
        id == json_get_u16(root, "id", 0, 2047)
    IN  IF instr.rc # 0 \/ report.rc # 0 \/ pl.rc # 0 \/ id.rc # 0
        THEN Did(-1, <<>>, <<uds_send_json(ERR_BAD_Q, oracle.uds)>>, <<>>)
        ELSE LET w == pack_Q(instr.out, pl.out, id.out, report.out)
             IN  Did(0, <<uart_send_word(w, UartWrite(oracle, 1))>>, <<>>,
                     <<[fn |-> "pack_Q",
                        args |-> <<instr.out, pl.out, id.out, report.out>>,
                        word |-> w]>>)

\* One message from the Node side: validate, pack, send to the robot, or
\* answer with an ERR message. root is what cJSON_Parse made of the text.
\* A handler that drops a message of an unknown type without a reply.
handle_node_json_silent(root, oracle) ==
    IF root.kind = "invalid"
    THEN Did(-1, <<>>, <<uds_send_json(ERR_BAD_JSON, oracle.uds)>>, <<>>)
    ELSE LET type == cJSON_GetObjectItemCaseSensitive(root, "type")
         IN  IF ~cJSON_IsString(type)
             THEN Did(-1, <<>>, <<uds_send_json(ERR_MISSING_TYPE, oracle.uds)>>, <<>>)
             ELSE LET t == type.valuestring
                  IN  IF t = "C" THEN handle_C(root, oracle)
                      ELSE IF t = "P" THEN handle_P(root, oracle)
                      ELSE IF t = "S" THEN handle_S(root, oracle)
                      ELSE IF t = "Q" THEN handle_Q(root, oracle)
                      ELSE Did(0, <<>>, <<>>, <<>>)

handle_node_json(root, oracle) ==
    IF root.kind = "invalid"
    THEN Did(-1, <<>>, <<uds_send_json(ERR_BAD_JSON, oracle.uds)>>, <<>>)
    ELSE LET type == cJSON_GetObjectItemCaseSensitive(root, "type")
         IN  IF ~cJSON_IsString(type)
             THEN Did(-1, <<>>, <<uds_send_json(ERR_MISSING_TYPE, oracle.uds)>>, <<>>)
             ELSE LET t == type.valuestring
                  IN  IF t = "C" THEN handle_C(root, oracle)
                      ELSE IF t = "P" THEN handle_P(root, oracle)
                      ELSE IF t = "S" THEN handle_S(root, oracle)
                      ELSE IF t = "Q" THEN handle_Q(root, oracle)
                      ELSE Did(0, <<>>, <<uds_send_json(ERR_UNKNOWN_TYPE, oracle.uds)>>, <<>>)

---------------------------------------------------------------------------
(* Telemetry to the Node side: a word from the robot as JSON text.         *)

\* A 64-bit value as four 16-bit limbs, most significant first.
Limbs(w) == [i \in 1..4 |-> ValOf(BitAnd(Shr(w, 16 * (4 - i)), LowMask(16)))]

\* Limbs divided by ten: quotient limbs and remainder.
DivTen(L) ==
    LET a1 == L[1]
        a2 == (a1 % 10) * 65536 + L[2]
        a3 == (a2 % 10) * 65536 + L[3]
        a4 == (a3 % 10) * 65536 + L[4]
    IN  [q |-> <<a1 \div 10, a2 \div 10, a3 \div 10, a4 \div 10>>, r |-> a4 % 10]

RECURSIVE DecimalOf(_)
\* The digits "%llu" prints for the value with limbs L.
DecimalOf(L) ==
    LET d == DivTen(L)
    IN  IF d.q = <<0, 0, 0, 0>> THEN ToString(d.r)
        ELSE DecimalOf(d.q) \o ToString(d.r)

\* A handler that forwards words of every other type raw as well.
robot_word_to_node_json_all(w, wr) ==
    LET type == ToU8(get_bits_u32(w, 0, 5))
    IN  <<uds_send_json("{\"type\":\"" \o ToString(type) \o "\",\"raw_u64\":\""
                          \o DecimalOf(Limbs(w)) \o "\"}", wr)>>

\* The messages sent for word w (none or one), wr being the results of the
\* two writes of a message.
robot_word_to_node_json(w, wr) ==
    LET type == ToU8(get_bits_u32(w, 0, 5))
    IN  IF type = TYPE_SR
        THEN LET u == unpack_SR(w)
                 sr == u.out
             IN  IF u.ret = 0
                 THEN <<uds_send_json(
                          "{\"type\":\"SR\",\"speed\":" \o ToString(sr.speed)
                            \o ",\"state\":" \o ToString(sr.state)
                            \o ",\"motor\":" \o ToString(sr.motor)
                            \o ",\"robot_id\":" \o ToString(sr.robot_id)
                            \o ",\"curr_pos\":" \o ToString(sr.curr_pos) \o "}", wr)>>
                 ELSE <<>>
        ELSE IF type = TYPE_HR
        THEN LET u == unpack_HR(w)
                 hr == u.out
             IN  IF u.ret = 0
                 THEN <<uds_send_json(
                          "{\"type\":\"HR\",\"battery\":" \o ToString(hr.battery)
                            \o ",\"signal\":" \o ToString(hr.signal)
                            \o ",\"security\":" \o ToString(hr.security)
                            \o ",\"name_id\":" \o ToString(hr.name_id) \o "}", wr)>>
                 ELSE <<>>
        ELSE IF type = TYPE_A
        THEN <<uds_send_json("{\"type\":\"A\",\"raw_u64\":\""
                               \o DecimalOf(Limbs(w)) \o "\"}", wr)>>
        ELSE IF type = TYPE_HPR
        THEN <<uds_send_json("{\"type\":\"HPR\",\"raw_u64\":\""
                               \o DecimalOf(Limbs(w)) \o "\"}", wr)>>
        ELSE <<>>

---------------------------------------------------------------------------
(* The radio link feeding the serial device: the robot side sends frames,  *)
(* the link may corrupt or drop a byte of a frame, or insert a noise byte. *)

MaxStream == 24        \* bytes the link delivers in a frame-by-frame run
MaxBurst == 13         \* bytes the link delivers in a burst run
MaxFaults == 1         \* link faults (corrupt, drop, insert) in one run

PayloadSync == <<170, 85, 8, 255, 128, 0, 1, 127>>
PayloadAA == <<170, 0, 0, 0, 0, 0, 0, 0>>
Payloads == {PayloadSync, PayloadAA}

\* Byte values the link corrupts to or inserts.
NoiseBytes == {0, 85, 170}

RECURSIVE XorAll(_)
XorAll(s) == IF s = <<>> THEN 0 ELSE Xor8(Head(s), XorAll(Tail(s)))

\* The 12 bytes the robot side puts on the wire for payload P.
RobotFrame(P) ==
    <<UART_PREAMBLE_0, UART_PREAMBLE_1, UART_PAYLOAD_LEN>> \o P \o <<XorAll(P)>>

Idle_codec == [fn |-> "none", args |-> <<>>, done |-> FALSE, out |-> {}]
Idle_esp == [rx_buf |-> <<>>, cmd_queue |-> <<>>, sent |-> <<>>, taken |-> <<>>,
             air |-> <<>>, word |-> {}, events |-> 0, lines |-> 0]
Idle_call == [json |-> NoJson, oracle |-> <<>>, done |-> FALSE, ret |-> 0,
              uart |-> <<>>, uds |-> <<>>, packed |-> <<>>]

Idle_br == [pc |-> "accept", uds_client |-> -1, bt_connect_attempted |-> 0,
            sigpipe |-> "unset", rfds |-> {}, serial |-> <<>>, open |-> {},
            closes |-> 0, handled |-> <<>>, last |-> "none", stale |-> 0]
Idle_node == <<>>
\* The hook before it is mounted.
Idle_ws == [socks |-> <<>>, wsRef |-> 0, reconnectTimeoutRef |-> 0, timers |-> {},
            nsched |-> 0, reconnectDelayRef |-> 0, messageQueueRef |-> <<>>,
            shouldConnectRef |-> FALSE, heartbeat |-> FALSE, hidden |-> FALSE,
            status |-> "none", submitted |-> <<>>, delivered |-> <<>>,
            lastDelay |-> 0, lastBy |-> "none", hides |-> 0, reruns |-> 0]

InitLink(room, pend, payloads, noise) ==
    /\ up = uart_parser_init
    /\ uart_rx = <<>>
    /\ rx = <<>>
    /\ words = <<>>
    /\ reads = 0
    /\ line = [todo |-> <<>>, faults |-> MaxFaults, room |-> room, pend |-> pend,
               payloads |-> payloads, noise |-> noise]

CanArrive == line.room > 0 /\ Len(uart_rx) < line.pend

\* The robot side starts sending a frame.
RobotSend(P) ==
    /\ line.todo = <<>>
    /\ line.room >= Len(RobotFrame(P))
    /\ line' = [line EXCEPT !.todo = RobotFrame(P)]
    /\ UNCHANGED <<codec, up, uart_rx, rx, words, reads, call, esp, br, node, ws>>

\* The next byte of the frame arrives at the serial device.
LinkDeliver ==
    /\ line.todo # <<>>
    /\ CanArrive
    /\ uart_rx' = Append(uart_rx, Head(line.todo))
    /\ line' = [line EXCEPT !.todo = Tail(line.todo), !.room = line.room - 1]
    /\ UNCHANGED <<codec, up, rx, words, reads, call, esp, br, node, ws>>

\* The next byte of the frame arrives with another value.
LinkCorrupt(b) ==
    /\ line.todo # <<>>
    /\ line.faults > 0
    /\ CanArrive
    /\ b # Head(line.todo)
    /\ uart_rx' = Append(uart_rx, b)
    /\ line' = [line EXCEPT !.todo = Tail(line.todo), !.room = line.room - 1,
                            !.faults = line.faults - 1]
    /\ UNCHANGED <<codec, up, rx, words, reads, call, esp, br, node, ws>>

\* The next byte of the frame is lost.
LinkDrop ==
    /\ line.todo # <<>>
    /\ line.faults > 0
    /\ line' = [line EXCEPT !.todo = Tail(line.todo), !.faults = line.faults - 1]
    /\ UNCHANGED <<codec, up, uart_rx, rx, words, reads, call, esp, br, node, ws>>

\* A byte nobody sent arrives (before, inside or after a frame).
LinkNoise(b) ==
    /\ line.faults > 0
    /\ CanArrive
    /\ uart_rx' = Append(uart_rx, b)
    /\ line' = [line EXCEPT !.room = line.room - 1, !.faults = line.faults - 1]
    /\ UNCHANGED <<codec, up, rx, words, reads, call, esp, br, node, ws>>

Min(a, b) == IF a < b THEN a ELSE b

\* main(): the serial device is readable; read() returns what is there, up to
\* the size of tmp, and every byte goes through the parser.
UartReadable ==
    /\ uart_rx # <<>>
    /\ LET n == Min(Len(uart_rx), UART_READ_BUF)
           tmp == SubSeq(uart_rx, 1, n)
           r == feed_loop(up, tmp, n)
       IN  /\ up' = r.p
           /\ words' = words \o [k \in 1..Len(r.got) |->
                                   [at |-> Len(rx) + r.got[k].at,
                                    word |-> r.got[k].word]]
           /\ rx' = rx \o tmp
           /\ uart_rx' = SubSeq(uart_rx, n + 1, Len(uart_rx))
           /\ reads' = reads + 1
    /\ UNCHANGED <<codec, line, call, esp, br, node, ws>>

NextLink ==
    \/ \E P \in line.payloads : RobotSend(P)
    \/ LinkDeliver
    \/ \E b \in line.noise : LinkCorrupt(b)
    \/ LinkDrop
    \/ \E b \in line.noise : LinkNoise(b)
    \/ UartReadable

\* Every byte is read as soon as it has arrived.
InitFramer == InitLink(MaxStream, 1, Payloads, NoiseBytes) /\ codec = Idle_codec /\ call = Idle_call /\ esp = Idle_esp /\ br = Idle_br /\ node = Idle_node /\ ws = Idle_ws
SpecFramer == InitFramer /\ [][NextLink]_vars

\* Bytes pile up in the device between reads.
InitBurst == InitLink(MaxBurst, UART_READ_BUF, {PayloadSync}, {UART_PREAMBLE_0}) /\ codec = Idle_codec /\ call = Idle_call /\ esp = Idle_esp /\ br = Idle_br /\ node = Idle_node /\ ws = Idle_ws
SpecBurst == InitBurst /\ [][NextLink]_vars

---------------------------------------------------------------------------
(* Properties of the frame parser.                                         *)

PayloadOf(s) == SubSeq(s, 4, 11)

\* s is AA 55 08, eight payload bytes and their XOR.
IsValidFrame(s) ==
    /\ Len(s) = 12
    /\ s[1] = 170 /\ s[2] = 85 /\ s[3] = 8
    /\ s[12] = XorAll(PayloadOf(s))

\* s is AA 55 08, eight payload bytes and a byte that is not their XOR.
IsBadChecksumFrame(s) ==
    /\ Len(s) = 12
    /\ s[1] = 170 /\ s[2] = 85 /\ s[3] = 8
    /\ s[12] # XorAll(PayloadOf(s))

\* s is the beginning of AA 55 08 followed by payload bytes.
IsFrameStart(s) ==
    /\ Len(s) <= 11
    /\ Len(s) >= 1 => s[1] = 170
    /\ Len(s) >= 2 => s[2] = 85
    /\ Len(s) >= 3 => s[3] = 8

\* The 64-bit value whose most significant byte is P[1].
BigEndianValue(P) ==
    {8 * (8 - x[1]) + x[2] :
        x \in {y \in (1..8) \X (0..7) : (P[y[1]] \div (2^y[2])) % 2 = 1}}

\* C1: fed from WAIT_SYNC0, the 12 bytes AA 55 08 P XOR(P) make the parser
\* return 1 exactly once, on the 12th byte, with the big-endian value of P,
\* and leave it in WAIT_SYNC0; the first 11 bytes produce nothing.
C1_ValidFrameEmitsOnce ==
    /\ IsFrameStart(rx) => words = <<>>
    /\ IsValidFrame(rx) =>
          /\ words = <<[at |-> 12, word |-> BigEndianValue(PayloadOf(rx))]>>
          /\ up.st = ST_SYNC0

C1_Witness ==
    /\ IsValidFrame(rx)
    /\ Len(words) = 1
    /\ PayloadOf(rx) = PayloadSync

\* C2: a word is emitted only at a byte that completes 12 consecutive bytes
\* AA 55 08 P XOR(P), and it is the big-endian value of P: nothing with a
\* wrong sync byte, a length other than 8 or a wrong checksum produces a word.
C2_OnlyValidFramesEmit ==
    \A k \in 1..Len(words) :
        LET e == words[k] IN
        /\ e.at >= 12
        /\ IsValidFrame(SubSeq(rx, e.at - 11, e.at))
        /\ e.word = BigEndianValue(PayloadOf(SubSeq(rx, e.at - 11, e.at)))

C2_Witness ==
    /\ Len(rx) = 24
    /\ line.faults = 0
    /\ IsBadChecksumFrame(SubSeq(rx, 1, 12))
    /\ Len(words) = 1
    /\ words[1].at = 24

\* C3 (as claimed): one garbage byte g, whatever its value, followed by a
\* valid frame F emits exactly one word, the word of F.
C3_GarbageThenFrame ==
    (Len(rx) = 13 /\ IsValidFrame(SubSeq(rx, 2, 13))) =>
        words = <<[at |-> 13, word |-> BigEndianValue(PayloadOf(SubSeq(rx, 2, 13)))]>>

\* C4: a frame whose checksum does not match its (altered) payload emits no
\* word and leaves the parser in WAIT_SYNC0 once its checksum byte is
\* consumed; a valid frame right after it is emitted.
C4_BadChecksumDropped ==
    /\ (Len(rx) >= 12 /\ IsBadChecksumFrame(SubSeq(rx, 1, 12))) =>
          /\ \A k \in 1..Len(words) : words[k].at > 12
          /\ Len(rx) = 12 => up.st = ST_SYNC0
    /\ (Len(rx) = 24 /\ IsBadChecksumFrame(SubSeq(rx, 1, 12))
                     /\ IsValidFrame(SubSeq(rx, 13, 24))) =>
          words = <<[at |-> 24,
                     word |-> BigEndianValue(PayloadOf(SubSeq(rx, 13, 24)))]>>

\* One payload byte of a sent frame was altered, a valid frame followed.
C4_Witness ==
    /\ Len(rx) = 24
    /\ \E P \in Payloads : \E i \in 4..11 :
          /\ rx[i] # RobotFrame(P)[i]
          /\ \A j \in (1..12) \ {i} : rx[j] = RobotFrame(P)[j]
    /\ IsValidFrame(SubSeq(rx, 13, 24))
    /\ Len(words) = 1

RECURSIVE OnePass(_)
\* The words one pass over the whole stream s yields, from a fresh parser.
OnePass(s) ==
    IF s = <<>> THEN [p |-> uart_parser_init, got |-> <<>>]
    ELSE LET n == Len(s)
             prev == OnePass(SubSeq(s, 1, n - 1))
             r == uart_parser_feed(prev.p, s[n], {})
         IN  [p |-> r.p,
              got |-> IF r.ret = 1
                      THEN Append(prev.got, [at |-> n, word |-> r.out_word])
                      ELSE prev.got]

\* C5: however the stream is split into reads, the words emitted so far are
\* those one pass over the bytes read so far emits.
C5_ChunkingInvariant == words = OnePass(rx).got

\* A valid frame whose 12 bytes came in two reads.
C5_Witness ==
    /\ IsValidFrame(rx)
    /\ reads = 2
    /\ uart_rx = <<>>
    /\ Len(words) = 1

---------------------------------------------------------------------------
(* The codec called on its own: every call is one step.                    *)

\* Values of an n-bit field tried: none, lowest bit, highest bit, all bits.
FieldEdges(n) == {0, 1, 2^(n - 1), (2^n) - 1}
SpeedSamples == FieldEdges(7) \cup {50, 100}
IdSamples == FieldEdges(12) \cup FieldEdges(11)
SpecSamples == {{}, {0}, {31}, 0..31}
\* Words tried by the unpackers: every discriminant with no, one, all but
\* one or all of bits 5..63 set.
UpperPatterns ==
    {{}, 5..63} \cup {{i} : i \in 5..63} \cup {(5..63) \ {i} : i \in 5..63}
WordSamples == {U64(t) \cup u : t \in 0..31, u \in UpperPatterns}

CodecInputs ==
    {[fn |-> "pack_C", args |-> <<w, a, s, d, speed, pl>>, done |-> FALSE, out |-> {}] :
        w \in 0..1, a \in 0..1, s \in 0..1, d \in 0..1,
        speed \in SpeedSamples, pl \in 0..3}
    \cup
    {[fn |-> "pack_P", args |-> <<instr, pl, id>>, done |-> FALSE, out |-> {}] :
        instr \in FieldEdges(4), pl \in 0..3, id \in IdSamples}
    \cup
    {[fn |-> "pack_S", args |-> <<instr, ac, pl, id, spec>>, done |-> FALSE, out |-> {}] :
        instr \in FieldEdges(4), ac \in FieldEdges(10), pl \in 0..3,
        id \in FieldEdges(11), spec \in SpecSamples}
    \cup
    {[fn |-> "pack_Q", args |-> <<instr, pl, id, report>>, done |-> FALSE, out |-> {}] :
        instr \in FieldEdges(4), pl \in 0..3, id \in IdSamples, report \in 0..1}
    \cup
    {[fn |-> f, args |-> <<w>>, done |-> FALSE, out |-> {}] :
        f \in {"unpack_SR", "unpack_HR"}, w \in WordSamples}
    \cup
    {[fn |-> "robot_word_to_node_json", args |-> <<w, <<FullWrite, FullWrite>>>>,
      done |-> FALSE, out |-> {}] : w \in WordSamples}
    \cup
    {[fn |-> "uart_send_word", args |-> <<w, FullWrite>>, done |-> FALSE, out |-> {}] :
        w \in WordSamples}
    \cup
    {[fn |-> "uart_send_word", args |-> <<{0}, wr>>, done |-> FALSE, out |-> {}] :
        wr \in UartFaults}

CallPackC ==
    /\ codec.fn = "pack_C" /\ ~codec.done
    /\ LET a == codec.args IN
       codec' = [codec EXCEPT !.done = TRUE, !.out = pack_C(a[1], a[2], a[3], a[4], a[5], a[6])]
    /\ UNCHANGED <<up, uart_rx, rx, words, reads, line, call, esp, br, node, ws>>

CallPackP ==
    /\ codec.fn = "pack_P" /\ ~codec.done
    /\ LET a == codec.args IN
       codec' = [codec EXCEPT !.done = TRUE, !.out = pack_P(a[1], a[2], a[3])]
    /\ UNCHANGED <<up, uart_rx, rx, words, reads, line, call, esp, br, node, ws>>

CallPackS ==
    /\ codec.fn = "pack_S" /\ ~codec.done
    /\ LET a == codec.args IN
       codec' = [codec EXCEPT !.done = TRUE, !.out = pack_S(a[1], a[2], a[3], a[4], a[5])]
    /\ UNCHANGED <<up, uart_rx, rx, words, reads, line, call, esp, br, node, ws>>

CallPackQ ==
    /\ codec.fn = "pack_Q" /\ ~codec.done
    /\ LET a == codec.args IN
       codec' = [codec EXCEPT !.done = TRUE, !.out = pack_Q(a[1], a[2], a[3], a[4])]
    /\ UNCHANGED <<up, uart_rx, rx, words, reads, line, call, esp, br, node, ws>>

CallUnpackSR ==
    /\ codec.fn = "unpack_SR" /\ ~codec.done
    /\ codec' = [codec EXCEPT !.done = TRUE, !.out = unpack_SR(codec.args[1])]
    /\ UNCHANGED <<up, uart_rx, rx, words, reads, line, call, esp, br, node, ws>>

CallUnpackHR ==
    /\ codec.fn = "unpack_HR" /\ ~codec.done
    /\ codec' = [codec EXCEPT !.done = TRUE, !.out = unpack_HR(codec.args[1])]
    /\ UNCHANGED <<up, uart_rx, rx, words, reads, line, call, esp, br, node, ws>>

CallUartSendWord ==
    /\ codec.fn = "uart_send_word" /\ ~codec.done
    /\ codec' = [codec EXCEPT !.done = TRUE,
                              !.out = uart_send_word(codec.args[1], codec.args[2])]
    /\ UNCHANGED <<up, uart_rx, rx, words, reads, line, call, esp, br, node, ws>>

CallRobotWordToNodeJson ==
    /\ codec.fn = "robot_word_to_node_json" /\ ~codec.done
    /\ codec' = [codec EXCEPT !.done = TRUE,
                              !.out = robot_word_to_node_json(codec.args[1], codec.args[2])]
    /\ UNCHANGED <<up, uart_rx, rx, words, reads, line, call, esp, br, node, ws>>

NextCodec ==
    \/ CallPackC
    \/ CallPackP
    \/ CallPackS
    \/ CallPackQ
    \/ CallUnpackSR
    \/ CallUnpackHR
    \/ CallUartSendWord
    \/ CallRobotWordToNodeJson

\* The inputs are drawn at the start; the step is the call.
InitCodec ==
    /\ codec \in CodecInputs
    /\ call = Idle_call
    /\ InitLink(0, 0, {}, {})
    /\ ws = Idle_ws
    /\ node = Idle_node
    /\ br = Idle_br
    /\ esp = Idle_esp

SpecCodec == InitCodec /\ [][NextCodec]_vars

---------------------------------------------------------------------------
(* Properties of the codec.                                                *)

RECURSIVE FieldVal(_, _, _)
\* The value of the n bits of w from bit off upwards (n at most 31).
FieldVal(w, off, n) ==
    IF n = 0 THEN 0
    ELSE FieldVal(w, off, n - 1) + (IF (off + n - 1) \in w THEN 2^(n - 1) ELSE 0)

\* C6: for each command type, every field read back from the packed word at
\* its declared (offset, width) is the value packed, and bits 0..4 hold the
\* type's discriminant.
C6_PackRoundTrip ==
    LET a == codec.args
        w == codec.out
    IN  codec.done =>
        /\ codec.fn = "pack_C" =>
              /\ FieldVal(w, 0, 5) = 1
              /\ FieldVal(w, 5, 1) = a[1] /\ FieldVal(w, 6, 1) = a[2]
              /\ FieldVal(w, 7, 1) = a[3] /\ FieldVal(w, 8, 1) = a[4]
              /\ FieldVal(w, 9, 7) = a[5] /\ FieldVal(w, 16, 2) = a[6]
        /\ codec.fn = "pack_P" =>
              /\ FieldVal(w, 0, 5) = 2
              /\ FieldVal(w, 5, 4) = a[1] /\ FieldVal(w, 9, 2) = a[2]
              /\ FieldVal(w, 11, 12) = a[3]
        /\ codec.fn = "pack_S" =>
              /\ FieldVal(w, 0, 5) = 3
              /\ FieldVal(w, 5, 4) = a[1] /\ FieldVal(w, 9, 10) = a[2]
              /\ FieldVal(w, 19, 2) = a[3] /\ FieldVal(w, 21, 11) = a[4]
              /\ {j \in 0..31 : (32 + j) \in w} = a[5]
        /\ codec.fn = "pack_Q" =>
              /\ FieldVal(w, 0, 5) = 4
              /\ FieldVal(w, 5, 4) = a[1] /\ FieldVal(w, 9, 2) = a[2]
              /\ FieldVal(w, 11, 12) = a[3] /\ FieldVal(w, 23, 1) = a[4]

\* A System word with every field at its maximum.
C6_Witness ==
    /\ codec.fn = "pack_S"
    /\ codec.args = <<15, 1023, 3, 2047, 0..31>>
    /\ codec.out = (0..63) \ {2, 3, 4}

\* C8: pack_C(1,0,0,0,50,1) is 0x16421: bits 0, 5, 10, 13, 14 and 16.
C8_PackControlLiteral ==
    (codec.fn = "pack_C" /\ codec.args = <<1, 0, 0, 0, 50, 1>>
                         /\ codec.done) =>
        /\ codec.out = {0, 5, 10, 13, 14, 16}
        /\ ValOf(codec.out) = 91169

C8_Witness ==
    /\ codec.fn = "pack_C"
    /\ codec.args = <<1, 0, 0, 0, 50, 1>>
    /\ codec.done
    /\ 16 \in codec.out

\* C9: unpack_SR fails exactly when bits 0..4 are not 5 and unpack_HR exactly
\* when they are not 6; otherwise each output field is its bit range of w,
\* whatever the other 59 bits are.
C9_UnpackDiscriminant ==
    LET w == codec.args[1]
        r == codec.out
    IN  codec.done =>
        /\ codec.fn = "unpack_SR" =>
              /\ (r.ret # 0) <=> (FieldVal(w, 0, 5) # 5)
              /\ FieldVal(w, 0, 5) = 5 =>
                    /\ r.ret = 0
                    /\ r.out.speed = FieldVal(w, 5, 7)
                    /\ r.out.state = FieldVal(w, 12, 1)
                    /\ r.out.motor = FieldVal(w, 13, 1)
                    /\ r.out.robot_id = FieldVal(w, 14, 2)
                    /\ r.out.curr_pos = FieldVal(w, 16, 31)
        /\ codec.fn = "unpack_HR" =>
              /\ (r.ret # 0) <=> (FieldVal(w, 0, 5) # 6)
              /\ FieldVal(w, 0, 5) = 6 =>
                    /\ r.ret = 0
                    /\ r.out.battery = FieldVal(w, 5, 7)
                    /\ r.out.signal = FieldVal(w, 12, 6)
                    /\ r.out.security = FieldVal(w, 18, 2)
                    /\ r.out.name_id = FieldVal(w, 20, 12)

\* A status report with all of bits 5..63 set unpacks.
C9_Witness ==
    /\ codec.fn = "unpack_SR"
    /\ codec.args[1] = {0, 2} \cup (5..63)
    /\ codec.done
    /\ codec.out.ret = 0
    /\ codec.out.out.curr_pos = 2147483647

\* C16: for a word of discriminant 5 exactly one SR object is sent, with
\* speed = bits 5-11, state = bit 12, motor = bit 13, robot_id = bits 14-15,
\* curr_pos = bits 16-46; for discriminant 6 exactly one HR object with
\* battery = bits 5-11, signal = bits 12-17, security = bits 18-19,
\* name_id = bits 20-31; for 7 and 8 exactly one A / HPR object with the
\* whole 64-bit value; for every other discriminant nothing.
C16_TelemetryByType ==
    (codec.fn = "robot_word_to_node_json" /\ codec.done) =>
        LET w == codec.args[1]
            t == FieldVal(w, 0, 5)
            F(off, n) == ToString(FieldVal(w, off, n))
            sent == codec.out
        IN  /\ t \in 5..8 => (Len(sent) = 1 /\ Len(sent[1].writes) = 2)
            /\ t \notin 5..8 => sent = <<>>
            /\ t = 5 => sent[1].json =
                  "{\"type\":\"SR\",\"speed\":" \o F(5, 7) \o ",\"state\":" \o F(12, 1)
                    \o ",\"motor\":" \o F(13, 1) \o ",\"robot_id\":" \o F(14, 2)
                    \o ",\"curr_pos\":" \o F(16, 31) \o "}"
            /\ t = 6 => sent[1].json =
                  "{\"type\":\"HR\",\"battery\":" \o F(5, 7) \o ",\"signal\":" \o F(12, 6)
                    \o ",\"security\":" \o F(18, 2) \o ",\"name_id\":" \o F(20, 12) \o "}"
            /\ t = 7 => sent[1].json =
                  "{\"type\":\"A\",\"raw_u64\":\"" \o DecimalOf(Limbs(w)) \o "\"}"
            /\ t = 8 => sent[1].json =
                  "{\"type\":\"HPR\",\"raw_u64\":\"" \o DecimalOf(Limbs(w)) \o "\"}"
            /\ w = {3} \cup (5..63) =>
                  sent[1].json = "{\"type\":\"HPR\",\"raw_u64\":\"18446744073709551592\"}"

\* An Ack word with bits 5..63 set, forwarded with its whole value.
C16_Witness ==
    /\ codec.fn = "robot_word_to_node_json"
    /\ codec.done
    /\ codec.args[1] = {0, 1, 2} \cup (5..63)
    /\ Len(codec.out) = 1
    /\ codec.out[1].json = "{\"type\":\"A\",\"raw_u64\":\"18446744073709551591\"}"
    /\ codec.out[1].writes[1].buf = <<0, 0, 0, 45>>

\* C11: uart_send_word hands write() exactly 65 bytes: byte i (0 <= i < 64)
\* is '1' if bit 63-i of the word is set and '0' otherwise, byte 64 is a
\* carriage return, and a complete write sends all 65; for the word 0x1
\* that is 63 '0', one '1', carriage return, and nothing else.
C11_AsciiLine ==
    (codec.fn = "uart_send_word" /\ codec.done) =>
        LET w == codec.args[1]
            buf == codec.out.buf
        IN  /\ Len(buf) = 65
            /\ \A i \in 0..63 :
                  buf[i + 1] = (IF (63 - i) \in w THEN 49 ELSE 48)
            /\ buf[65] = 13
            /\ codec.args[2] = FullWrite => (codec.out.n = 65 /\ codec.out.ret = 0)
            /\ w = {0} => buf = [i \in 1..65 |-> IF i <= 63 THEN 48
                                                 ELSE IF i = 64 THEN 49 ELSE 13]

\* The word 0x1 written in full.
C11_Witness ==
    /\ codec.fn = "uart_send_word"
    /\ codec.done
    /\ codec.args = <<{0}, FullWrite>>
    /\ codec.out.n = 65
    /\ codec.out.buf[64] = 49

\* C26: uart_send_word makes one write of the 65 bytes and reports what that
\* write returned, without another attempt: -1 when it failed with an error
\* other than "not ready" or took fewer than 65 bytes, 0 when it was not
\* ready, 0 when it took all 65.
C26_OneWrite ==
    (codec.fn = "uart_send_word" /\ codec.done) =>
        LET wr == codec.args[2]
            out == codec.out
        IN  /\ Len(out.buf) = UART_LINE_LEN
            /\ out.n = (IF wr.n > UART_LINE_LEN THEN UART_LINE_LEN ELSE wr.n)
            /\ (wr.n < 0 /\ wr.errno = "EAGAIN") => out.ret = 0
            /\ (wr.n < 0 /\ wr.errno # "EAGAIN") => out.ret = -1
            /\ (wr.n >= 0 /\ wr.n < UART_LINE_LEN) => out.ret = -1
            /\ wr.n >= UART_LINE_LEN => out.ret = 0

\* The write was not ready and the call returned 0 with nothing written.
C26_Witness ==
    /\ codec.fn = "uart_send_word"
    /\ codec.done
    /\ codec.args[2] = [n |-> -1, errno |-> "EAGAIN"]
    /\ codec.out.ret = 0
    /\ codec.out.n = -1

---------------------------------------------------------------------------
(* The handler called on one message: the message and the results of the   *)
(* writes are drawn at the start, the step is the call.                    *)

MaxActions == 3        \* items in an "actions" array

RECURSIVE SeqsUpTo(_, _)
SeqsUpTo(S, n) ==
    IF n = 0 THEN {<<>>}
    ELSE LET shorter == SeqsUpTo(S, n - 1)
         IN  shorter \cup {Append(q, x) : q \in {r \in shorter : Len(r) = n - 1}, x \in S}

\* Items a field is given besides a number in range: none, a string, and
\* numbers below, just above, a multiple of 256 above and far above the range.
BadItems(maxv) ==
    {Absent, JStr("1"), JNum(-1), JNum(maxv + 1), JNum(256), JNum(65536),
     JBig(65536, 0)}

ControlJson(v) ==
    JObj([type |-> JStr("C"), forward |-> v[1], backward |-> v[2], left |-> v[3],
          right |-> v[4], speed |-> v[5], priority_level |-> v[6]])
ControlMax == <<1, 1, 1, 1, 100, 3>>
ControlBase == <<JNum(1), JNum(0), JNum(0), JNum(0), JNum(50), JNum(1)>>
ControlInputs ==
    {ControlJson(<<JNum(f), JNum(b), JNum(l), JNum(r), JNum(speed), JNum(pl)>>) :
        f \in 0..1, b \in 0..1, l \in 0..1, r \in 0..1,
        speed \in {0, 50, 100}, pl \in {0, 1, 3}}
    \cup
    {ControlJson([ControlBase EXCEPT ![i] = x]) :
        i \in 1..6, x \in UNION {BadItems(ControlMax[j]) : j \in 1..6} \cup {JNum(150)}}

PoseJson(v) ==
    JObj([type |-> JStr("P"), priority_level |-> v[1], id |-> v[2],
          instruction |-> v[3], actions |-> v[4]])
ActionItems == {JNum(0), JNum(15), JNum(16), JStr("3")}
PoseInputs ==
    {PoseJson(<<JNum(pl), JNum(id), instr, Absent>>) :
        pl \in {0, 3}, id \in {0, 1024, 2047},
        instr \in {JNum(0), JNum(15), JNum(16), JNum(-1), JNum(256), JStr("1"), Absent}}
    \cup
    {PoseJson(<<JNum(1), JNum(2047), instr, JArr(items)>>) :
        instr \in {Absent, JStr("1"), JNum(7), JNum(16)},
        items \in SeqsUpTo(ActionItems, MaxActions) \cup {<<JNum(1), JNum(99), JNum(3)>>}}
    \cup
    {PoseJson(<<JNum(1), JNum(1), Absent, x>>) : x \in {JStr("1"), JNum(1)}}
    \cup
    {PoseJson([<<JNum(1), JNum(1), JNum(1), Absent>> EXCEPT ![i] = x]) :
        i \in 1..2, x \in BadItems(3) \cup BadItems(2047) \cup {JNum(4095)}}

SystemJson(v) ==
    JObj([type |-> JStr("S"), instruction |-> v[1], ac |-> v[2],
          priority_level |-> v[3], id |-> v[4], instruction_specific |-> v[5]])
SystemBase == <<JNum(1), JNum(1), JNum(1), JNum(1), JNum(1)>>
SpecItems == {JNum(0), JNum(1), JNum(65536), JNum(2147483647), JBig(32768, 0),
              JBig(65535, 65535)}
SystemInputs ==
    {SystemJson(<<JNum(instr), JNum(ac), JNum(pl), JNum(id), spec>>) :
        instr \in {0, 15}, ac \in {0, 512, 1023}, pl \in {0, 3},
        id \in {0, 1024, 2047}, spec \in SpecItems}
    \cup
    {SystemJson([SystemBase EXCEPT ![i] = x]) :
        i \in 1..5, x \in BadItems(3) \cup BadItems(15) \cup BadItems(1023)
                          \cup BadItems(2047) \cup {JNum(4095)}}

QueryJson(v) ==
    JObj([type |-> JStr("Q"), instruction |-> v[1], report |-> v[2],
          priority_level |-> v[3], id |-> v[4]])
QueryBase == <<JNum(1), JNum(1), JNum(1), JNum(1)>>
QueryInputs ==
    {QueryJson(<<JNum(instr), JNum(report), JNum(pl), JNum(id)>>) :
        instr \in {0, 15}, report \in 0..1, pl \in {0, 3}, id \in {0, 1024, 2047}}
    \cup
    {QueryJson([QueryBase EXCEPT ![i] = x]) :
        i \in 1..4, x \in BadItems(1) \cup BadItems(3) \cup BadItems(15)
                          \cup BadItems(2047) \cup {JNum(4095)}}

OtherInputs ==
    {BadJson, JObj([speed |-> JNum(1)]), JObj([type |-> JNum(1)]),
     JObj([type |-> JStr("X")]), JObj([type |-> JStr("c")])}

JsonInputs ==
    ControlInputs \cup PoseInputs \cup SystemInputs \cup QueryInputs \cup OtherInputs

\* Results of the writes of one call: all complete, or one of them failing,
\* not ready, or short.
UdsFaults == {<<[n |-> -1, errno |-> "EPIPE"], FullWrite>>,
              <<[n |-> 2, errno |-> "none"], FullWrite>>,
              <<FullWrite, [n |-> -1, errno |-> "EPIPE"]>>,
              <<FullWrite, [n |-> 10, errno |-> "none"]>>}
AllWritten == [uart |-> [k \in 1..MaxActions |-> FullWrite],
               uds |-> <<FullWrite, FullWrite>>]
WriteOracles ==
    {AllWritten}
    \cup {[AllWritten EXCEPT !.uart[k] = o] : k \in 1..MaxActions, o \in UartFaults}
    \cup {[AllWritten EXCEPT !.uds = u] : u \in UdsFaults}

HandleNodeJson ==
    /\ call.json.kind # "none" /\ ~call.done
    /\ LET r == handle_node_json(call.json, call.oracle)
       IN  call' = [call EXCEPT !.done = TRUE, !.ret = r.ret, !.uart = r.uart,
                                !.uds = r.uds, !.packed = r.packed]
    /\ UNCHANGED <<codec, up, uart_rx, rx, words, reads, line, esp, br, node, ws>>

NextHandler == HandleNodeJson

InitHandler ==
    /\ call \in {[json |-> j, oracle |-> o, done |-> FALSE, ret |-> 0,
                  uart |-> <<>>, uds |-> <<>>, packed |-> <<>>] :
                    j \in JsonInputs, o \in WriteOracles}
    /\ codec = Idle_codec
    /\ InitLink(0, 0, {}, {})
    /\ ws = Idle_ws
    /\ node = Idle_node
    /\ br = Idle_br
    /\ esp = Idle_esp

SpecHandler == InitHandler /\ [][NextHandler]_vars

---------------------------------------------------------------------------
(* Properties of the handler, read off the bytes handed to the serial      *)
(* device.                                                                 *)

\* Bit k of the word a 65-byte line carries: the line starts with bit 63.
WireBit(buf, k) == buf[64 - k] = 49
WireBits(buf, off, n) == {j \in 0..(n - 1) : WireBit(buf, off + j)}
WireField(buf, off, n) == ValOf(WireBits(buf, off, n))

InRange(it, minv, maxv) ==
    it.k = "number" /\ it.valueint >= minv /\ it.valueint <= maxv

\* A Control message with all six fields present and in range.
IsValidControl(j) ==
    /\ j.kind = "object"
    /\ j.f["type"] = JStr("C")
    /\ \A k \in {"forward", "backward", "left", "right"} : InRange(j.f[k], 0, 1)
    /\ InRange(j.f["speed"], 0, 100)
    /\ InRange(j.f["priority_level"], 0, 3)

\* C7: for a valid Control message the word written to the serial device has
\* bits 0-4 = 1, bit 5 = forward, bit 6 = backward, bit 7 = left,
\* bit 8 = right, bits 9-15 = speed and bits 16-17 = priority_level.
C7_ControlWireLayout ==
    (call.done /\ IsValidControl(call.json)) =>
        /\ Len(call.uart) = 1
        /\ LET buf == call.uart[1].buf
               J(k) == call.json.f[k].valueint
           IN  /\ Len(buf) = 65
               /\ WireField(buf, 0, 5) = 1
               /\ WireField(buf, 5, 1) = J("forward")
               /\ WireField(buf, 6, 1) = J("backward")
               /\ WireField(buf, 7, 1) = J("left")
               /\ WireField(buf, 8, 1) = J("right")
               /\ WireField(buf, 9, 7) = J("speed")
               /\ WireField(buf, 16, 2) = J("priority_level")

\* Offset and width of the field each packer parameter is placed in, and the
\* JSON key whose value the handler hands to that parameter.
PackerFields(fn) ==
    CASE fn = "pack_C" -> <<[off |-> 5, n |-> 1, key |-> "forward"],
                            [off |-> 6, n |-> 1, key |-> "left"],
                            [off |-> 7, n |-> 1, key |-> "backward"],
                            [off |-> 8, n |-> 1, key |-> "right"],
                            [off |-> 9, n |-> 7, key |-> "speed"],
                            [off |-> 16, n |-> 2, key |-> "priority_level"]>>
      [] fn = "pack_P" -> <<[off |-> 5, n |-> 4, key |-> "instruction"],
                            [off |-> 9, n |-> 2, key |-> "priority_level"],
                            [off |-> 11, n |-> 12, key |-> "id"]>>
      [] fn = "pack_S" -> <<[off |-> 5, n |-> 4, key |-> "instruction"],
                            [off |-> 9, n |-> 10, key |-> "ac"],
                            [off |-> 19, n |-> 2, key |-> "priority_level"],
                            [off |-> 21, n |-> 11, key |-> "id"],
                            [off |-> 32, n |-> 32, key |-> "instruction_specific"]>>
      [] fn = "pack_Q" -> <<[off |-> 5, n |-> 4, key |-> "instruction"],
                            [off |-> 9, n |-> 2, key |-> "priority_level"],
                            [off |-> 11, n |-> 12, key |-> "id"],
                            [off |-> 23, n |-> 1, key |-> "report"]>>

\* The value of a JSON number as 1 bits, from its double.
JsonBits(it) == BitOr(Shl(U64(it.valuedouble.hi), 16), U64(it.valuedouble.lo))

\* The JSON items whose value may be handed to a parameter: the field of
\* that name, or for a Pose instruction taken from "actions" any item of it.
JsonSources(j, fld) ==
    IF fld.key = "instruction" /\ j.f["type"] = JStr("P")
       /\ j.f["instruction"].k # "number"
    THEN {j.f["actions"].items[i] : i \in 1..Len(j.f["actions"].items)}
    ELSE {j.f[fld.key]}

ErrMessages == {ERR_BAD_JSON, ERR_MISSING_TYPE, ERR_BAD_C, ERR_BAD_P, ERR_P_RANGE,
                ERR_P_REQUIRES, ERR_BAD_S, ERR_BAD_Q, ERR_UNKNOWN_TYPE}

IsType(j, t) == j.kind = "object" /\ j.f["type"] = JStr(t)
BadField(j, key, maxv) == ~InRange(j.f[key], 0, maxv)
BadU32(it) == it.k # "number" \/ it.valuedouble.neg \/ it.valuedouble.hi > 65535

\* A command with a required field missing, not a number or out of range.
\* A Pose command needs priority_level and id, and an instruction in 0..15
\* unless it has no instruction number and gives an actions list instead.
HasBadField(j) ==
    \/ /\ IsType(j, "C")
       /\ \/ \E k \in {"forward", "backward", "left", "right"} : BadField(j, k, 1)
          \/ BadField(j, "speed", 100)
          \/ BadField(j, "priority_level", 3)
    \/ /\ IsType(j, "S")
       /\ \/ BadField(j, "instruction", 15) \/ BadField(j, "ac", 1023)
          \/ BadField(j, "priority_level", 3) \/ BadField(j, "id", 2047)
          \/ BadU32(j.f["instruction_specific"])
    \/ /\ IsType(j, "Q")
       /\ \/ BadField(j, "instruction", 15) \/ BadField(j, "report", 1)
          \/ BadField(j, "priority_level", 3) \/ BadField(j, "id", 2047)
    \/ /\ IsType(j, "P")
       /\ \/ BadField(j, "priority_level", 3) \/ BadField(j, "id", 2047)
          \/ (j.f["instruction"].k = "number" /\ BadField(j, "instruction", 15))
          \/ (j.f["instruction"].k # "number" /\ j.f["actions"].k # "array")

RECURSIVE ValidActions(_)
\* The elements of an actions list that are numbers in 0..15, in list order.
ValidActions(items) ==
    IF items = <<>> THEN <<>>
    ELSE LET rest == ValidActions(Tail(items))
         IN  IF InRange(Head(items), 0, 15) THEN <<Head(items).valueint>> \o rest
             ELSE rest

\* A Pose command with valid priority_level and id and an actions list.
IsPoseList(j) ==
    /\ IsType(j, "P")
    /\ InRange(j.f["priority_level"], 0, 3)
    /\ InRange(j.f["id"], 0, 2047)
    /\ j.f["actions"].k = "array"

\* The lines written are those of pack_P(element, priority_level, id) for
\* the elements of the list that are numbers in 0..15, in list order.
WritesTheList(c) ==
    LET ops == ValidActions(c.json.f["actions"].items)
    IN  /\ Len(c.uart) = Len(ops)
        /\ \A i \in 1..Len(ops) :
              /\ Len(c.uart[i].buf) = 65
              /\ c.uart[i].buf[65] = 13
              /\ WireBits(c.uart[i].buf, 0, 64)
                    = pack_P(ops[i], c.json.f["priority_level"].valueint,
                             c.json.f["id"].valueint)

---------------------------------------------------------------------------
(* The embedded receiver (ESP32 SPP server): the data callback collects a  *)
(* line, turns it into a 64-bit command and queues it for the parser task. *)

RX_BUF_SIZE == 128
CMD_QUEUE_LEN == 10
CH_LF == 10
ULLONG_MAX == 0..63

\* 0 - v on 64 bits.
Neg64(v) ==
    IF v = {} THEN {}
    ELSE LET low == CHOOSE i \in v : \A j \in v : i <= j
         IN  {low} \cup {i \in (low + 1)..63 : i \notin v}

\* The first index from i on whose character is not in set S (Len + 1 if none).
SkipWhile(s, i, S) ==
    LET stops == {j \in i..Len(s) : s[j] \notin S}
    IN  IF stops = {} THEN Len(s) + 1
        ELSE CHOOSE j \in stops : \A k \in stops : j <= k

\* strtoull(s, &end, 2): white space, an optional sign, then binary digits;
\* end is the number of characters used, 0 when there is no digit. A value
\* that does not fit 64 bits gives ULLONG_MAX.
strtoull_2(s) ==
    LET i0 == SkipWhile(s, 1, {32, 9, 11, 12})
        signed == i0 <= Len(s) /\ s[i0] \in {43, 45}
        d0 == IF signed THEN i0 + 1 ELSE i0
        d1 == SkipWhile(s, d0, {CH_0, CH_1})
        z1 == SkipWhile(s, d0, {CH_0})
        s1 == IF z1 > d1 THEN d1 ELSE z1
        nsig == d1 - s1
        mag == {d1 - 1 - k : k \in {j \in s1..(d1 - 1) : s[j] = CH_1}}
    IN  IF d1 = d0 THEN [val |-> {}, end |-> 0]
        ELSE IF nsig > 64 THEN [val |-> ULLONG_MAX, end |-> d1 - 1]
        ELSE [val |-> IF signed /\ s[i0] = 45 THEN Neg64(mag) ELSE mag,
              end |-> d1 - 1]

\* A callback whose queue gives up its oldest command for a new one.
spp_data_char_overwrite(e, c) ==
    IF c = CH_CR \/ c = CH_LF
    THEN IF Len(e.rx_buf) > 0
         THEN LET r == strtoull_2(e.rx_buf)
              IN  IF r.end # 0
                  THEN [e EXCEPT !.rx_buf = <<>>,
                                 !.cmd_queue =
                                     Append(IF Len(@) < CMD_QUEUE_LEN THEN @ ELSE Tail(@),
                                            r.val),
                                 !.sent = Append(@, r.val)]
                  ELSE [e EXCEPT !.rx_buf = <<>>]
         ELSE e
    ELSE IF Len(e.rx_buf) < RX_BUF_SIZE - 1
    THEN [e EXCEPT !.rx_buf = Append(@, c)]
    ELSE [e EXCEPT !.rx_buf = <<>>]

\* One character of a data event. rx_buf holds the rx_index characters
\* collected so far; sent lists every command the queue took.
spp_data_char(e, c) ==
    IF c = CH_CR \/ c = CH_LF
    THEN IF Len(e.rx_buf) > 0
         THEN LET r == strtoull_2(e.rx_buf)
              IN  IF r.end # 0 /\ Len(e.cmd_queue) < CMD_QUEUE_LEN
                  THEN [e EXCEPT !.rx_buf = <<>>,
                                 !.cmd_queue = Append(@, r.val),
                                 !.sent = Append(@, r.val)]
                  ELSE [e EXCEPT !.rx_buf = <<>>]
         ELSE e
    ELSE IF Len(e.rx_buf) < RX_BUF_SIZE - 1
    THEN [e EXCEPT !.rx_buf = Append(@, c)]
    ELSE [e EXCEPT !.rx_buf = <<>>]

RECURSIVE spp_data_range(_, _, _, _)
\* The loop of a data event over data[lo..hi], one character after the
\* other. It is evaluated by halves, the state after the first half being
\* computed before the second half starts.
spp_data_range(e, data, lo, hi) ==
    IF lo > hi THEN e
    ELSE IF lo = hi THEN spp_data_char(e, data[lo])
    ELSE LET mid == (lo + hi) \div 2
         IN  CHOOSE r \in {spp_data_range(after, data, mid + 1, hi) :
                             after \in {spp_data_range(e, data, lo, mid)}} : TRUE

\* A callback that starts every event with an empty line buffer.
bt_spp_cb_fresh(e, data, len) ==
    spp_data_range([e EXCEPT !.rx_buf = <<>>], data, 1, len)

\* ESP_SPP_DATA_IND_EVT with len bytes of data.
bt_spp_cb(e, data, len) == spp_data_range(e, data, 1, len)

\* Words sent to the receiver.
EspWords ==
    {U64(t) \cup u : t \in {0, 1, 31},
                     u \in {{}, {5}, {63}, 5..63, 5..62, {i \in 5..63 : i % 2 = 0}}}

\* A data event with the next k bytes on the air. events counts 0, 1, many.
SppDataInd(k) ==
    /\ k <= Len(esp.air)
    /\ esp' = [bt_spp_cb(esp, SubSeq(esp.air, 1, k), k)
                 EXCEPT !.air = SubSeq(esp.air, k + 1, Len(esp.air)),
                        !.events = IF esp.events < 2 THEN esp.events + 1 ELSE 2]
    /\ UNCHANGED <<codec, up, uart_rx, rx, words, reads, line, call, br, node, ws>>

\* cmd_parser_task takes the next command off the queue.
CmdParserTask ==
    /\ esp.cmd_queue # <<>>
    /\ esp' = [esp EXCEPT !.cmd_queue = Tail(@),
                          !.taken = Append(@, Head(esp.cmd_queue))]
    /\ UNCHANGED <<codec, up, uart_rx, rx, words, reads, line, call, br, node, ws>>

NextEsp ==
    \/ \E k \in 1..UART_LINE_LEN : SppDataInd(k)
    \/ CmdParserTask

\* The line buffer is empty, the queue is empty, and the 65 bytes of one
\* word are on the air.
InitEsp ==
    /\ esp \in {[Idle_esp EXCEPT !.air = uart_send_word(w, FullWrite).buf, !.word = w] :
                  w \in EspWords}
    /\ codec = Idle_codec
    /\ call = Idle_call
    /\ InitLink(0, 0, {}, {})
    /\ ws = Idle_ws
    /\ node = Idle_node
    /\ br = Idle_br

SpecEsp == InitEsp /\ [][NextEsp]_vars

\* C12: the 65 bytes of uart_send_word(w), given to the receiver in any
\* split into data events from an empty line buffer, make it enqueue exactly
\* one command, w, and none before the last byte.
C12_ReceiverRoundTrip ==
    esp.events > 0 =>
        /\ esp.air = <<>> => (esp.sent = <<esp.word>> /\ esp.rx_buf = <<>>)
        /\ esp.air # <<>> => esp.sent = <<>>

\* The word with all bits set, delivered in more than one event.
C12_Witness ==
    /\ esp.air = <<>>
    /\ esp.events = 2
    /\ esp.word = 0..63
    /\ esp.sent = <<0..63>>

---------------------------------------------------------------------------
(* The bridge process: the loop of main(), the Node-side clients of its    *)
(* control socket and the serial device.                                   *)

MAX_MSG_LEN == 1048576

\* A connected stream socket as the bridge sees it: rxq are the bytes the
\* client has written and the bridge has not read, closed says the client
\* has closed its end.
\* read_full: read() takes what is there, up to what is asked; with nothing
\* there it gives 0 when the peer has closed and fails with EAGAIN when not.
\* data are the bytes put in the caller's buffer, rest what the socket
\* still holds. fails says that read() fails with an errno other than EINTR,
\* EAGAIN and EWOULDBLOCK.
read_full(sock, n, fails) ==
    IF fails THEN [ret |-> -1, data |-> <<>>, rest |-> sock.rxq]
    ELSE IF Len(sock.rxq) >= n
    THEN [ret |-> 1, data |-> SubSeq(sock.rxq, 1, n),
          rest |-> SubSeq(sock.rxq, n + 1, Len(sock.rxq))]
    ELSE [ret |-> IF sock.closed THEN 0 ELSE -2, data |-> sock.rxq, rest |-> <<>>]

\* The length prefix as a number. Every length above the limit is only
\* compared with the limit, and stands as the limit plus one.
ntohl(b) ==
    IF b[1] > 0 \/ b[2] > 16 THEN MAX_MSG_LEN + 1
    ELSE (b[2] * 65536) + (b[3] * 256) + b[4]

\* The texts clients send. "{" does not parse and "{}" is an object without
\* a type; "C" and "X" stand for the text of a valid Control message and of
\* a message of an unknown type.
TXT_BAD == <<123>>
TXT_NOTYPE == <<123, 125>>
TXT_CONTROL == <<67>>
TXT_UNKNOWN == <<88>>

LongLen == 319         \* bytes of the long text
\* A long text of a Control message.
TXT_LONG == [i \in 1..LongLen |-> 67]
cJSON_Parse(buf) ==
    IF buf = TXT_NOTYPE THEN JObj([speed |-> JNum(1)])
    ELSE IF buf \in {TXT_CONTROL, TXT_LONG} THEN ControlJson(ControlBase)
    ELSE IF buf = TXT_UNKNOWN THEN JObj([type |-> JStr("X")])
    ELSE BadJson

\* The RN-42 command sequence: "$$$", then "C\r", then "---\r"; nothing
\* after a "$$$" that was not written whole. wr are the results of the
\* three writes.
RN42_ENTER == <<36, 36, 36>>
RN42_CONNECT == <<67, 13>>
RN42_EXIT == <<45, 45, 45, 13>>

\* rn42_connect_mac that leaves command mode before the connect command.
rn42_connect_mac_swapped(wr) ==
    IF Taken(wr[1], 3) # 3
    THEN [ret |-> -1, writes |-> <<[buf |-> RN42_ENTER, n |-> Taken(wr[1], 3)]>>]
    ELSE [ret |-> 0,
          writes |-> <<[buf |-> RN42_ENTER, n |-> 3],
                       [buf |-> RN42_EXIT, n |-> Taken(wr[3], 4)],
                       [buf |-> RN42_CONNECT, n |-> Taken(wr[2], 2)]>>]

rn42_connect_mac(wr) ==
    IF Taken(wr[1], 3) # 3
    THEN [ret |-> -1, writes |-> <<[buf |-> RN42_ENTER, n |-> Taken(wr[1], 3)]>>]
    ELSE [ret |-> 0,
          writes |-> <<[buf |-> RN42_ENTER, n |-> 3],
                       [buf |-> RN42_CONNECT, n |-> Taken(wr[2], 2)],
                       [buf |-> RN42_EXIT, n |-> Taken(wr[3], 4)]>>]

MaxClients == 2        \* connections Node-side clients make in one run
MaxFrames == 1         \* telemetry frames the robot side sends in one run

RECURSIVE Flat(_)
Flat(frames) == IF frames = <<>> THEN <<>> ELSE Head(frames) \o Flat(Tail(frames))

\* What a client writes for one message: the length, big-endian, then the text.
NodeFrame(text) ==
    <<0, (Len(text) \div 65536) % 256, (Len(text) \div 256) % 256, Len(text) % 256>>
      \o text

\* What a client means to write on its connection, piece by piece: messages,
\* a zero length, a length over the limit, a length at the limit with less
\* text than it announces.
ClientScripts ==
    {<<NodeFrame(TXT_CONTROL)>>,
     <<NodeFrame(TXT_BAD), NodeFrame(TXT_CONTROL)>>,
     <<NodeFrame(TXT_NOTYPE), NodeFrame(TXT_CONTROL)>>,
     <<NodeFrame(TXT_UNKNOWN), NodeFrame(TXT_CONTROL)>>,
     <<<<0, 0, 0, 0>>, NodeFrame(TXT_CONTROL)>>,
     <<<<0, 16, 0, 1>>, NodeFrame(TXT_CONTROL)>>,
     <<<<0, 16, 0, 0>> \o TXT_CONTROL>>}

\* What a client that connects after the first has to write.
LaterScripts == {<<NodeFrame(TXT_CONTROL)>>}

MaxTextStops == 2      \* bytes of a text after each of which a write may end
RECURSIVE Stops(_, _)
\* Where a client's writes may end: in the middle of a length (after the
\* bytes line.cuts names), after it, after each of the first bytes of a
\* text, and at the end of the message.
Stops(frames, at) ==
    IF frames = <<>> THEN {}
    ELSE {at + k : k \in line.cuts}
         \cup {at + k : k \in {j \in 4..Len(Head(frames)) :
                                  j <= 4 + MaxTextStops \/ j = Len(Head(frames))}}
         \cup Stops(Tail(frames), at + Len(Head(frames)))

\* A telemetry payload the bridge forwards (an Ack word).
PayloadAck == <<0, 0, 0, 0, 0, 0, 0, TYPE_A>>

\* A whole frame of the robot side has arrived at the serial device.
TelemetryArrives(P) ==
    /\ line.room >= Len(RobotFrame(P))
    /\ uart_rx' = uart_rx \o RobotFrame(P)
    /\ line' = [line EXCEPT !.room = @ - Len(RobotFrame(P))]
    /\ UNCHANGED <<codec, up, rx, words, reads, call, esp, br, node, ws>>

\* A client connects: the connection waits in the listen queue.
ClientConnect(script) ==
    /\ br.pc # "exited"
    /\ Len(node) < MaxClients
    /\ script \in (IF node = <<>> THEN line.scripts ELSE line.later)
    /\ node' = Append(node, [frames |-> script, sent |-> 0, rxq |-> <<>>,
                             closed |-> FALSE, fd |-> "queued", b2c |-> <<>>])
    /\ UNCHANGED <<codec, up, uart_rx, rx, words, reads, line, call, esp, br, ws>>

\* A client writes the next bytes of what it has to send, up to byte k.
ClientWrite(c, k) ==
    /\ ~node[c].closed
    /\ node[c].fd # "closed"
    /\ k > node[c].sent
    /\ node' = [node EXCEPT
                  ![c].rxq = @ \o SubSeq(Flat(node[c].frames), node[c].sent + 1, k),
                  ![c].sent = k]
    /\ UNCHANGED <<codec, up, uart_rx, rx, words, reads, line, call, esp, br, ws>>

\* A client closes its end.
ClientClose(c) ==
    /\ ~node[c].closed
    /\ node' = [node EXCEPT ![c].closed = TRUE]
    /\ UNCHANGED <<codec, up, uart_rx, rx, words, reads, line, call, esp, br, ws>>

\* main(), uds_client < 0: accept() returns the oldest waiting connection
\* (and blocks while there is none); the first time, the RN-42 sequence is
\* written to the serial device.
Queued == {c \in DOMAIN node : node[c].fd = "queued"}

\* The link record with one fault of the run used up: hit keeps which read
\* failed and the results of the writes that were not all whole.
NoHit == [read |-> "none", uds |-> <<>>, uart |-> <<>>]
Spent(hit) == [line EXCEPT !.faults = @ - 1, !.hit = hit]

\* The results of the three writes of the RN-42 sequence: all whole, or,
\* while the run has a fault left, one of them failed, not ready or short.
AllThree == <<FullWrite, FullWrite, FullWrite>>
Rn42Writes ==
    {AllThree}
    \cup (IF line.faults > 0
          THEN {[AllThree EXCEPT ![k] = o] : k \in 1..3, o \in UartFaults}
          ELSE {})
\* AcceptClient that runs the RN-42 sequence for every client.
AcceptClient_retry ==
    /\ br.pc = "accept"
    /\ Queued # {}
    /\ \E wr \in Rn42Writes :
         LET c == CHOOSE q \in Queued : \A o \in Queued : q <= o
             rn == rn42_connect_mac(wr)
             first == TRUE
         IN  /\ wr # AllThree => first
             /\ node' = [node EXCEPT ![c].fd = "open"]
             /\ br' = [br EXCEPT !.pc = "select", !.uds_client = c,
                                 !.open = @ \cup {c},
                                 !.bt_connect_attempted = 1,
                                 !.serial = IF first THEN @ \o rn.writes ELSE @,
                                 !.stale = IF uart_rx = <<>> THEN 0
                                           ELSE Len(rx) + Len(uart_rx),
                                 !.last = "accepted"]
             /\ line' = IF wr # AllThree THEN Spent([NoHit EXCEPT !.uart = wr])
                        ELSE line
    /\ UNCHANGED <<codec, up, uart_rx, rx, words, reads, call, esp, ws>>

\* AcceptClient that leaves the RN-42 sequence out.
AcceptClient_unsequenced ==
    /\ br.pc = "accept"
    /\ Queued # {}
    /\ \E wr \in Rn42Writes :
         LET c == CHOOSE q \in Queued : \A o \in Queued : q <= o
             rn == rn42_connect_mac(wr)
             first == br.bt_connect_attempted = 0
         IN  /\ wr # AllThree => first
             /\ node' = [node EXCEPT ![c].fd = "open"]
             /\ br' = [br EXCEPT !.pc = "select", !.uds_client = c,
                                 !.open = @ \cup {c},
                                 !.bt_connect_attempted = 1,
                                 !.serial = @,
                                 !.stale = IF uart_rx = <<>> THEN 0
                                           ELSE Len(rx) + Len(uart_rx),
                                 !.last = "accepted"]
             /\ line' = IF wr # AllThree THEN Spent([NoHit EXCEPT !.uart = wr])
                        ELSE line
    /\ UNCHANGED <<codec, up, uart_rx, rx, words, reads, call, esp, ws>>

AcceptClient ==
    /\ br.pc = "accept"
    /\ Queued # {}
    /\ \E wr \in Rn42Writes :
         LET c == CHOOSE q \in Queued : \A o \in Queued : q <= o
             rn == rn42_connect_mac(wr)
             first == br.bt_connect_attempted = 0
         IN  /\ wr # AllThree => first
             /\ node' = [node EXCEPT ![c].fd = "open"]
             /\ br' = [br EXCEPT !.pc = "select", !.uds_client = c,
                                 !.open = @ \cup {c},
                                 !.bt_connect_attempted = 1,
                                 !.serial = IF first THEN @ \o rn.writes ELSE @,
                                 !.stale = IF uart_rx = <<>> THEN 0
                                           ELSE Len(rx) + Len(uart_rx),
                                 !.last = "accepted"]
             /\ line' = IF wr # AllThree THEN Spent([NoHit EXCEPT !.uart = wr])
                        ELSE line
    /\ UNCHANGED <<codec, up, uart_rx, rx, words, reads, call, esp, ws>>

\* main(): select() returns with the descriptors that are readable. The
\* control socket is readable when it holds bytes or its peer has closed.
Readable ==
    (IF node[br.uds_client].rxq # <<>> \/ node[br.uds_client].closed
     THEN {"uds"} ELSE {})
    \cup (IF uart_rx # <<>> THEN {"uart"} ELSE {})
SelectReturns ==
    /\ br.pc = "select"
    /\ Readable # {}
    /\ br' = [br EXCEPT !.pc = "uds", !.rfds = Readable]
    /\ UNCHANGED <<codec, up, uart_rx, rx, words, reads, line, call, esp, node, ws>>

\* uds_client = -1 without close().
CloseClient_leak(b, why) ==
    [b EXCEPT !.pc = "accept", !.uds_client = -1, !.closes = @ + 1, !.rfds = {},
              !.last = why, !.stale = 0]

\* close(uds_client); uds_client = -1; continue.
CloseClient(b, why) ==
    [b EXCEPT !.pc = "accept", !.uds_client = -1, !.open = @ \ {b.uds_client},
              !.closes = @ + 1, !.rfds = {}, !.last = why, !.stale = 0]

\* The process is ended by a signal: the kernel closes its descriptors.
Killed(b) ==
    [b EXCEPT !.pc = "exited", !.open = {}, !.rfds = {}, !.last = "SIGPIPE",
              !.sigpipe = "SIG_DFL", !.stale = 0]

\* The program never sets the disposition of SIGPIPE: it is as the process
\* inherited it, the default (the process ends) or ignored. It is recorded
\* here the first time the signal is raised.
Dispositions(b) == IF b.sigpipe = "unset" THEN {"SIG_DFL", "SIG_IGN"} ELSE {b.sigpipe}

\* The results of the two writes of a message on a socket: a write on a
\* socket whose peer has closed fails with EPIPE and raises SIGPIPE.
SocketWrites(sock) ==
    IF sock.closed THEN <<[n |-> -1, errno |-> "EPIPE"], FullWrite>>
    ELSE <<FullWrite, FullWrite>>

\* A write on a socket whose peer is there that is not ready (the socket
\* buffer is full), short, or fails, for the length or for the text.
SocketFaults ==
    {<<[n |-> -1, errno |-> "EAGAIN"], FullWrite>>,
     <<[n |-> 2, errno |-> "none"], FullWrite>>,
     <<FullWrite, [n |-> -1, errno |-> "EAGAIN"]>>,
     <<FullWrite, [n |-> 10, errno |-> "none"]>>,
     <<FullWrite, [n |-> -1, errno |-> "ENOBUFS"]>>}
WriteOutcomes(sock) ==
    {SocketWrites(sock)}
    \cup (IF ~sock.closed /\ line.faults > 0 THEN SocketFaults ELSE {})

\* Which read() of one pass fails, while the run has a fault left.
ReadFaults == {"none"} \cup (IF line.faults > 0 THEN {"length", "text"} ELSE {})

\* main(), the control socket is in rfds: one length prefix and one text are
\* read and the text is handled; a read of the prefix that would block is
\* ignored, a read of the text that does not give all of it closes the
\* client, as do end of file and a length of 0 or over the limit.
NodeReadable ==
    /\ br.pc = "uds"
    /\ IF "uds" \notin br.rfds
       THEN /\ br' = [br EXCEPT !.pc = "uart"]
            /\ UNCHANGED <<node, call, line, ws>>
       ELSE \E f \in ReadFaults, wr \in WriteOutcomes(node[br.uds_client]) :
            LET c == br.uds_client
                r == read_full(node[c], 4, f = "length")
                len == ntohl(r.data)
                r2 == read_full([node[c] EXCEPT !.rxq = r.rest], len, f = "text")
                root == cJSON_Parse(r2.data)
                oracle == [uart |-> <<>>, uds |-> wr]
                d == handle_node_json(root, oracle)
                sig == node[c].closed /\ d.uds # <<>>
                plain == wr = SocketWrites(node[c])
            IN  /\ line' = IF f # "none" \/ ~plain
                           THEN Spent([read |-> f, uart |-> <<>>,
                                       uds |-> IF plain THEN <<>> ELSE wr])
                           ELSE line
                /\ IF r.ret = 0
                   THEN /\ f = "none" /\ plain
                        /\ br' = CloseClient(br, "eof")
                        /\ node' = [node EXCEPT ![c].rxq = r.rest, ![c].fd = "closed"]
                        /\ UNCHANGED call
                   ELSE IF r.ret < 0
                   THEN /\ f # "text" /\ plain
                        /\ br' = [br EXCEPT !.pc = "uart",
                                            !.last = IF r.ret = -2 THEN "ignored"
                                                     ELSE "read error ignored"]
                        /\ node' = [node EXCEPT ![c].rxq = r.rest]
                        /\ UNCHANGED call
                   ELSE IF len = 0 \/ len > MAX_MSG_LEN
                   THEN /\ f = "none" /\ plain
                        /\ br' = CloseClient(br, "length")
                        /\ node' = [node EXCEPT ![c].rxq = r.rest, ![c].fd = "closed"]
                        /\ UNCHANGED call
                   ELSE IF r2.ret <= 0
                   THEN /\ plain
                        /\ br' = CloseClient(br, IF r2.ret = 0 THEN "eof in text"
                                                 ELSE IF r2.ret = -2
                                                 THEN "text would block"
                                                 ELSE "text read error")
                        /\ node' = [node EXCEPT ![c].rxq = r2.rest, ![c].fd = "closed"]
                        /\ UNCHANGED call
                   ELSE /\ f = "none"
                        /\ ~plain => d.uds # <<>>
                        /\ call' = [json |-> root, oracle |-> oracle, done |-> TRUE,
                                    ret |-> d.ret, uart |-> d.uart, uds |-> d.uds,
                                    packed |-> d.packed]
                        /\ \E disp \in (IF sig THEN Dispositions(br) ELSE {br.sigpipe}) :
                             LET b == [br EXCEPT
                                         !.pc = "uart", !.last = "handled",
                                         !.sigpipe = disp,
                                         !.serial = @ \o d.uart,
                                         !.handled = Append(@, [client |-> c,
                                                                buf |-> r2.data])]
                                 die == sig /\ disp = "SIG_DFL"
                             IN  /\ br' = IF die THEN Killed(b) ELSE b
                                 /\ node' = [node EXCEPT
                                               ![c].rxq = r2.rest,
                                               ![c].b2c = @ \o d.uds,
                                               ![c].fd = IF die THEN "closed" ELSE @]
    /\ UNCHANGED <<codec, up, uart_rx, rx, words, reads, esp, ws>>

RECURSIVE forward_words(_, _)
\* robot_word_to_node_json for every word of one read, in order.
forward_words(got, wr) ==
    IF got = <<>> THEN <<>>
    ELSE robot_word_to_node_json(Head(got).word, wr) \o forward_words(Tail(got), wr)

\* main(), the serial device is in rfds: one read(), every byte through the
\* parser, every word forwarded to the client.
SerialReadable ==
    /\ br.pc = "uart"
    /\ IF "uart" \notin br.rfds
       THEN /\ br' = [br EXCEPT !.pc = "select", !.rfds = {}]
            /\ UNCHANGED <<up, uart_rx, rx, words, reads, node, line, ws>>
       ELSE \E wr \in WriteOutcomes(node[br.uds_client]) :
            LET n == Min(Len(uart_rx), UART_READ_BUF)
                tmp == SubSeq(uart_rx, 1, n)
                r == feed_loop(up, tmp, n)
                c == br.uds_client
                sent == forward_words(r.got, wr)
                sig == node[c].closed /\ sent # <<>>
                plain == wr = SocketWrites(node[c])
            IN  /\ ~plain => sent # <<>>
                /\ line' = IF ~plain THEN Spent([NoHit EXCEPT !.uds = wr]) ELSE line
                /\ up' = r.p
                /\ words' = words \o [k \in 1..Len(r.got) |->
                                        [at |-> Len(rx) + r.got[k].at,
                                         word |-> r.got[k].word]]
                /\ rx' = rx \o tmp
                /\ uart_rx' = SubSeq(uart_rx, n + 1, Len(uart_rx))
                /\ reads' = reads + 1
                /\ \E disp \in (IF sig THEN Dispositions(br) ELSE {br.sigpipe}) :
                     LET die == sig /\ disp = "SIG_DFL"
                     IN  /\ node' = [node EXCEPT
                                       ![c].b2c = @ \o (IF die THEN <<Head(sent)>>
                                                        ELSE sent),
                                       ![c].fd = IF die THEN "closed" ELSE @]
                         /\ br' = IF die THEN Killed(br)
                                  ELSE [br EXCEPT !.pc = "select", !.rfds = {},
                                                  !.sigpipe = disp,
                                                  !.stale = IF Len(rx) + n >= @
                                                            THEN 0 ELSE @]
    /\ UNCHANGED <<codec, call, esp, ws>>

NextBridge ==
    \/ \E script \in line.scripts \cup line.later : ClientConnect(script)
    \/ \E c \in DOMAIN node : \E k \in Stops(node[c].frames, 0) : ClientWrite(c, k)
    \/ \E c \in DOMAIN node : ClientClose(c)
    \/ AcceptClient
    \/ SelectReturns
    \/ NodeReadable
    \/ SerialReadable
    \/ TelemetryArrives(PayloadAck)

\* What a run of the bridge is given: the faults it may meet, what the
\* clients have to write and where their writes may end.
BridgeLink(faults, scripts, later, cuts) ==
    [todo |-> <<>>, faults |-> faults, room |-> MaxFrames * 12,
     pend |-> UART_READ_BUF, payloads |-> {PayloadAck}, noise |-> {},
     scripts |-> scripts, later |-> later, cuts |-> cuts, hit |-> NoHit]

\* The process has reached the top of the loop of main().
InitBridgeWith(l) ==
    /\ br = Idle_br
    /\ node = <<>>
    /\ call = Idle_call
    /\ codec = Idle_codec
    /\ esp = Idle_esp
    /\ ws = Idle_ws
    /\ up = uart_parser_init
    /\ uart_rx = <<>>
    /\ rx = <<>>
    /\ words = <<>>
    /\ reads = 0
    /\ line = l

\* Every read and write succeeds, short of what a closed client causes.
InitBridge == InitBridgeWith(BridgeLink(0, ClientScripts, LaterScripts, {2}))
SpecBridge == InitBridge /\ [][NextBridge]_vars

\* A client whose first write ends after one byte of a length, and whose
\* second message is the long text.
InitBridgeSplit ==
    InitBridgeWith(BridgeLink(0, {<<NodeFrame(TXT_CONTROL), NodeFrame(TXT_LONG)>>},
                              {}, {1}))
SpecBridgeSplit == InitBridgeSplit /\ [][NextBridge]_vars

MaxSocketFaults == 1   \* reads or writes that fail or are short in one run

\* One read or write of the run fails, is not ready or is short.
FaultScripts == {<<NodeFrame(TXT_UNKNOWN), NodeFrame(TXT_CONTROL)>>}
FaultLater == {<<NodeFrame(TXT_UNKNOWN)>>}
InitBridgeFaults ==
    InitBridgeWith(BridgeLink(MaxSocketFaults, FaultScripts, FaultLater, {}))
SpecBridgeFaults == InitBridgeFaults /\ [][NextBridge]_vars

---------------------------------------------------------------------------
(* Properties of the loop of main().                                       *)

\* A step of main() that handed one text to handle_node_json.
Handles == br.pc = "uds" /\ Len(br'.handled) = Len(br.handled) + 1

\* Malformed, without a string type, or of a type outside C, P, S, Q.
Unroutable(j) ==
    \/ j.kind = "invalid"
    \/ ~cJSON_IsString(cJSON_GetObjectItemCaseSensitive(j, "type"))
    \/ cJSON_GetObjectItemCaseSensitive(j, "type").valuestring \notin {"C", "P", "S", "Q"}

ErrFor(j) ==
    IF j.kind = "invalid" THEN ERR_BAD_JSON
    ELSE IF ~cJSON_IsString(cJSON_GetObjectItemCaseSensitive(j, "type"))
    THEN ERR_MISSING_TYPE
    ELSE ERR_UNKNOWN_TYPE

\* The write of the Control word of TXT_CONTROL to the serial device.
ControlLine == uart_send_word(pack_C(1, 0, 0, 0, 50, 1), FullWrite)

\* C15: a message that does not parse, has no string type or has a type
\* outside C, P, S, Q, from a client that is there, gets exactly one ERR
\* message with the matching msg, written whole, and no write to the serial
\* device; the client stays the bridge's client, its descriptor open, the
\* bridge in its loop; and the next message of that client, a Control command,
\* is parsed and written to the serial device as any Control command is.
C15_ErrKeepsClient ==
  [][
    LET c == br.uds_client
    IN  Handles /\ ~node[c].closed =>
          /\ Unroutable(call'.json) =>
                /\ Len(call'.uds) = 1
                /\ call'.uds[1].json = ErrFor(call'.json)
                /\ call'.uds[1].ret = 0
                /\ node'[c].b2c = Append(node[c].b2c, call'.uds[1])
                /\ br'.serial = br.serial
                /\ br'.uds_client = c /\ br'.pc = "uart"
                /\ br'.open = {c} /\ node'[c].fd = "open"
          /\ /\ br.handled # <<>>
             /\ br.handled[Len(br.handled)].client = c
             /\ Unroutable(cJSON_Parse(br.handled[Len(br.handled)].buf))
             /\ Len(node[c].rxq) >= Len(NodeFrame(TXT_CONTROL))
             /\ SubSeq(node[c].rxq, 1, Len(NodeFrame(TXT_CONTROL))) = NodeFrame(TXT_CONTROL)
             => /\ call'.json = ControlJson(ControlBase)
                /\ br'.serial = Append(br.serial, [buf |-> ControlLine.buf,
                                                   n |-> UART_LINE_LEN,
                                                   ret |-> 0])
                /\ call'.uds = <<>>
                /\ br'.uds_client = c /\ br'.pc = "uart"
  ]_vars

\* An unknown type answered, then the Control command after it written, the
\* same client still connected.
C15_Witness ==
    /\ br.pc # "exited" /\ br.uds_client = 1
    /\ Len(br.handled) = 2
    /\ br.handled[1] = [client |-> 1, buf |-> TXT_UNKNOWN]
    /\ br.handled[2] = [client |-> 1, buf |-> TXT_CONTROL]
    /\ Len(node[1].b2c) = 1 /\ node[1].b2c[1].json = ERR_UNKNOWN_TYPE
    /\ Len(br.serial) = 4 /\ br.serial[4].buf = ControlLine.buf

\* C17: whatever clients connect, send and close, also a client that closes
\* right after a command that gets a reply or while telemetry goes to it, the
\* bridge process is running: it has not been ended, and is in its loop
\* waiting for a client or serving one.
C17_BridgeSurvives ==
    /\ br.pc \in {"accept", "select", "uds", "uart"}
    /\ br.last # "SIGPIPE"

\* C18: the bridge never holds more than one open client descriptor. Blocked
\* in accept it holds none; in its loop it holds exactly uds_client; a
\* connection is accepted only when every connection accepted before it has
\* been closed, each by one close().
C18_OneClient ==
    /\ Cardinality(br.open) <= 1
    /\ br.pc = "accept" => br.open = {} /\ br.uds_client = -1
    /\ br.pc \in {"select", "uds", "uart"} => br.open = {br.uds_client}
    /\ \A c \in DOMAIN node :
          /\ c \in br.open => node[c].fd = "open"
          /\ node[c].fd = "open" =>
                /\ br.open = {c}
                /\ \A d \in 1..(c - 1) : node[d].fd = "closed"
    /\ br.pc # "exited" =>
          br.closes = Cardinality({c \in DOMAIN node : node[c].fd = "closed"})

\* The second connection waited while the first was served, and is served
\* now that the first is closed.
C18_Witness ==
    /\ Len(node) = 2
    /\ node[1].fd = "closed" /\ node[2].fd = "open"
    /\ br.open = {2} /\ br.uds_client = 2 /\ br.closes = 1
    /\ br.handled # <<>> /\ br.handled[1].client = 1

\* C19: when the control socket is readable, end of file, a length of 0 and
\* a length over 1,048,576 close the client and take the bridge back to
\* accept with no text handled and nothing written to the serial device;
\* after a length from 1 to 1,048,576 the client is kept and the bytes that
\* follow, as many as the length says, are handled as one message.
C19_LengthGate ==
  [][
    LET c == br.uds_client
        q == node[c].rxq
        len == ntohl(SubSeq(q, 1, 4))
        eof == node[c].closed /\ (Len(q) < 4 \/ (len <= MAX_MSG_LEN /\ Len(q) < 4 + len))
    IN  br.pc = "uds" /\ "uds" \in br.rfds /\ br' # br =>
          /\ eof \/ (Len(q) >= 4 /\ (len = 0 \/ len > MAX_MSG_LEN)) =>
                /\ br'.pc = "accept" /\ br'.uds_client = -1 /\ br'.open = {}
                /\ node'[c].fd = "closed"
                /\ br'.handled = br.handled /\ br'.serial = br.serial
          /\ ~eof /\ Len(q) >= 4 /\ len >= 1 /\ len <= MAX_MSG_LEN =>
                /\ (br'.pc = "uart" /\ br'.uds_client = c /\ node'[c].fd = "open")
                   \/ br'.pc = "exited"
                /\ Len(q) >= 4 + len =>
                      /\ br'.handled = Append(br.handled,
                                              [client |-> c, buf |-> SubSeq(q, 5, 4 + len)])
                      /\ node'[c].rxq = SubSeq(q, 5 + len, Len(q))
  ]_vars

\* The texts of client c handled so far, each with its length before it.
HandledFrames(c) ==
    LET mine == SelectSeq(br.handled, LAMBDA h : h.client = c)
    IN  [i \in 1..Len(mine) |-> NodeFrame(mine[i].buf)]

\* C20: a message whose length or text is only partly there when the socket
\* is readable is handled once and whole when the rest has come: a read that
\* would block does not close the client, and of what a connected client has
\* written, every byte is either in a message that was handled, in order, or
\* still in the socket.
C20_PartialMessages ==
    /\ br.last # "text would block"
    /\ \A c \in DOMAIN node :
          node[c].fd = "open" =>
             Flat(HandledFrames(c)) \o node[c].rxq
                = SubSeq(Flat(node[c].frames), 1, node[c].sent)

\* C21: a read of the length or of the text that fails with an error, and a
\* write of a message to the client that fails with an error or is short,
\* make the bridge close that client and go back to accept; and no write to
\* a client ends the process.
C21_FailureClosesClient ==
  [][
    LET c == br.uds_client
        hit == line'.hit
        failed(w) == IF w.n < 0 THEN w.errno # "EAGAIN" ELSE w # FullWrite
    IN  /\ br.pc \in {"uds", "uart"} /\ line'.faults < line.faults
           /\ (hit.read # "none" \/ \E k \in DOMAIN hit.uds : failed(hit.uds[k]))
           => /\ br'.pc = "accept" /\ br'.uds_client = -1
              /\ node'[c].fd = "closed"
        /\ br'.pc # "exited"
  ]_vars

\* C22: a word made of serial bytes that arrived before the bridge's client
\* was accepted (br.stale is where those bytes end) is not sent to that
\* client: one read of the serial device sends the client no more messages
\* than it completes words past that point.
C22_NoStaleTelemetry ==
  [][
    LET c == br.uds_client
        fresh == {k \in (Len(words) + 1)..Len(words') : words'[k].at > br.stale}
    IN  br.pc = "uart" /\ reads' = reads + 1 =>
           Len(node'[c].b2c) - Len(node[c].b2c) <= Cardinality(fresh)
  ]_vars

RECURSIVE IsSubSeq(_, _)
\* a is b with some elements left out.
IsSubSeq(a, b) ==
    IF a = <<>> THEN TRUE
    ELSE IF b = <<>> THEN FALSE
    ELSE IF Head(a) = Head(b) THEN IsSubSeq(Tail(a), Tail(b))
    ELSE IsSubSeq(a, Tail(b))

\* The texts client c has to send, and the texts handled for it, in order.
TextsOf(c) == [i \in 1..Len(node[c].frames) |->
                 SubSeq(node[c].frames[i], 5, Len(node[c].frames[i]))]
HandledOf(c) ==
    LET mine == SelectSeq(br.handled, LAMBDA h : h.client = c)
    IN  [i \in 1..Len(mine) |-> mine[i].buf]

\* The words forwarded so far and the raw values of the messages sent to
\* the clients, as robot_word_to_node_json gives them.
SentJson(c) == [i \in 1..Len(node[c].b2c) |-> node[c].b2c[i].json]

\* C23: the texts handled for a client are texts it sent, each at most once
\* and in the order it sent them, one at most for each time the socket was
\* found readable; the telemetry messages a client gets are those of words
\* the parser completed, in the order it completed them.
C23_OrderKept ==
    /\ \A c \in DOMAIN node :
          /\ IsSubSeq(HandledOf(c), TextsOf(c))
          /\ IsSubSeq(SelectSeq(SentJson(c), LAMBDA j : j \notin ErrMessages),
                      Flat([k \in 1..Len(words) |->
                              [i \in DOMAIN robot_word_to_node_json(
                                              words[k].word, <<FullWrite, FullWrite>>)
                                 |-> robot_word_to_node_json(
                                         words[k].word, <<FullWrite, FullWrite>>)[i].json]]))

\* C24: whatever the writes of a message return, the bytes a client's stream
\* holds are whole frames: a message of which a byte was written has its
\* four length bytes and, after them, all the bytes of its text.
C24_WholeFrames ==
    \A c \in DOMAIN node : \A k \in DOMAIN node[c].b2c :
        LET m == node[c].b2c[k]
        IN  m.writes[1].n > 0 =>
               /\ m.writes[1].n = 4
               /\ Len(m.writes) = 2
               /\ m.writes[2].n = Len(m.json)

\* C25: the bridge waits nowhere but in select: it is never stopped in
\* another call (the accept of a client, with no connection to take) while
\* bytes of the serial device wait to be read.
C25_WaitsOnlyInSelect ==
    ~(br.pc = "accept" /\ Queued = {} /\ uart_rx # <<>>)

\* The clients accepted so far.
Accepted == {c \in DOMAIN node : node[c].fd # "queued"}
\* The writes of "$$$" made on the serial device so far.
Rn42Starts == SelectSeq(br.serial, LAMBDA w : w.buf = RN42_ENTER)

C28_SequenceOrder ==
    LET s == br.serial
        at(buf) == {k \in DOMAIN s : s[k].buf = buf}
    IN  /\ at(RN42_ENTER) \subseteq {1}
        /\ at(RN42_CONNECT) \subseteq {2}
        /\ at(RN42_EXIT) \subseteq {3}
        /\ at(RN42_CONNECT) # {} <=> (s # <<>> /\ s[1].n = 3)
        /\ at(RN42_EXIT) # {} <=> at(RN42_CONNECT) # {}
        /\ RN42_ENTER = <<36, 36, 36>>
        /\ RN42_CONNECT[Len(RN42_CONNECT)] = CH_CR
        /\ RN42_EXIT = <<45, 45, 45, CH_CR>>

\* The three writes were made, the connect command was not written whole,
\* and a command word followed them.
C28_Witness ==
    /\ Len(br.serial) >= 4
    /\ br.serial[1] = [buf |-> RN42_ENTER, n |-> 3]
    /\ br.serial[2].buf = RN42_CONNECT /\ br.serial[2].n # 2
    /\ br.serial[3] = [buf |-> RN42_EXIT, n |-> 4]
    /\ Len(br.serial[4].buf) = UART_LINE_LEN

---------------------------------------------------------------------------
(* The useWebSocket hook of the controller UI (src/README.md).  ws.socks  *)
(* are the WebSocket objects created so far with their readyState; wsRef  *)
(* and reconnectTimeoutRef are 0 for null; timers are the pending         *)
(* setTimeout callbacks; submitted, delivered, lastDelay and lastBy       *)
(* record what was passed to sendMessage, what was handed to send(), the  *)
(* delay of the last reconnect scheduled since a socket last opened, and  *)
(* what started the last connect; hides counts the times the page was    *)
(* hidden.                                                                *)

INITIAL_RECONNECT_DELAY == 1000
MAX_RECONNECT_DELAY == 30000

MaxSockets == 8        \* WebSocket objects one run creates
MaxSends == 2          \* calls of sendMessage in one run
MaxHides == 1          \* times the page is hidden in one run
MaxReruns == 1         \* times the effect runs again in one run
\* What is passed to sendMessage: the number 0 and two objects.
MsgData == {0, 1, 2}
\* if (data) in flushQueue: 0 is falsy, an object is not.
Truthy(data) == data # 0

IsOpen(w) == w.wsRef # 0 /\ w.socks[w.wsRef] = "OPEN"

\* sendMessage without an encryption key: send when the current socket is
\* open, else push on the queue.
sendMessage(w, data) ==
    IF IsOpen(w) THEN [w EXCEPT !.delivered = Append(@, data)]
    ELSE [w EXCEPT !.messageQueueRef = Append(@, data)]

RECURSIVE flushQueue(_)
\* flushQueue: while the socket is open, shift the queue and send what is
\* truthy.
flushQueue(w) ==
    IF ~IsOpen(w) \/ w.messageQueueRef = <<>> THEN w
    ELSE LET data == Head(w.messageQueueRef)
             shifted == [w EXCEPT !.messageQueueRef = Tail(@)]
         IN  flushQueue(IF Truthy(data) THEN sendMessage(shifted, data) ELSE shifted)

startHeartbeat(w) == [w EXCEPT !.heartbeat = TRUE]
stopHeartbeat(w) == [w EXCEPT !.heartbeat = FALSE]

\* connect: nothing when the hook should not be connected; else the pending
\* reconnect is cleared and a new WebSocket replaces the current one.
connect(w, by) ==
    IF ~w.shouldConnectRef THEN w
    ELSE [w EXCEPT !.timers = @ \ {w.reconnectTimeoutRef},
                   !.reconnectTimeoutRef = 0,
                   !.status = "connecting",
                   !.socks = Append(@, "CONNECTING"),
                   !.wsRef = Len(w.socks) + 1,
                   !.lastBy = by]

\* disconnect: the hook should no longer be connected, the pending
\* reconnect is cleared and the current socket is closed.
disconnect(w) ==
    LET off == stopHeartbeat([w EXCEPT !.shouldConnectRef = FALSE,
                                       !.timers = @ \ {w.reconnectTimeoutRef},
                                       !.reconnectTimeoutRef = 0])
    IN  [off EXCEPT !.socks = IF w.wsRef # 0 /\ @[w.wsRef] # "CLOSED"
                              THEN [@ EXCEPT ![w.wsRef] = "CLOSING"] ELSE @,
                    !.wsRef = 0,
                    !.status = "disconnected"]

\* Only the hook takes steps in its specification.
HookOnly == UNCHANGED <<codec, up, uart_rx, rx, words, reads, line, call, esp, br, node>>

\* ws.onopen of socket i.
OnOpen(i) ==
    /\ ws.socks[i] = "CONNECTING"
    /\ LET opened == [ws EXCEPT !.socks[i] = "OPEN", !.status = "connected",
                                !.reconnectDelayRef = INITIAL_RECONNECT_DELAY,
                                !.lastDelay = 0]
       IN  ws' = flushQueue(startHeartbeat(opened))
    /\ HookOnly

\* ws.onclose of socket i: a reconnect is scheduled while the hook should
\* stay connected.
OnClose(i) ==
    /\ ws.socks[i] \in {"CONNECTING", "OPEN", "CLOSING"}
    /\ LET closed == stopHeartbeat([ws EXCEPT !.socks[i] = "CLOSED"])
           delay == Min(ws.reconnectDelayRef, MAX_RECONNECT_DELAY)
       IN  ws' = IF ws.shouldConnectRef
                 THEN [closed EXCEPT !.status = "reconnecting",
                                     !.nsched = @ + 1,
                                     !.timers = @ \cup {ws.nsched + 1},
                                     !.reconnectTimeoutRef = ws.nsched + 1,
                                     !.lastDelay = delay]
                 ELSE [closed EXCEPT !.status = "disconnected"]
    /\ HookOnly

\* The callback of a reconnect timer: the delay is doubled up to the
\* maximum and connect is called.
ReconnectTimer(t) ==
    /\ t \in ws.timers
    /\ Len(ws.socks) < MaxSockets
    /\ ws' = connect([ws EXCEPT !.timers = @ \ {t},
                                !.reconnectDelayRef =
                                    Min(@ * 2, MAX_RECONNECT_DELAY)], "timer")
    /\ HookOnly

\* handleVisibilityChange: the page is hidden, or visible again.
PageHidden ==
    /\ ws.status # "none" /\ ~ws.hidden
    /\ ws.hides < MaxHides
    /\ ws' = stopHeartbeat([ws EXCEPT !.hidden = TRUE, !.hides = @ + 1])
    /\ HookOnly

PageVisible ==
    /\ ws.hidden
    /\ Len(ws.socks) < MaxSockets
    /\ LET shown == [ws EXCEPT !.hidden = FALSE]
       IN  ws' = IF IsOpen(shown) THEN startHeartbeat(shown)
                 ELSE IF shown.shouldConnectRef THEN connect(shown, "visible")
                 ELSE shown
    /\ HookOnly

\* A call of sendMessage by the application.
SendMessage(data) ==
    /\ Len(ws.submitted) < MaxSends
    /\ ws' = sendMessage([ws EXCEPT !.submitted = Append(@, data)], data)
    /\ HookOnly

\* The cleanup of the effect: the component is unmounted.
Unmount ==
    /\ ws.shouldConnectRef
    /\ ws' = disconnect(ws)
    /\ HookOnly

\* The effect runs again because connect or disconnect changed: the cleanup
\* calls disconnect(), then shouldConnectRef is set and connect() is called.
EffectRerun ==
    /\ ws.shouldConnectRef
    /\ Len(ws.socks) < MaxSockets
    /\ ws.reruns < MaxReruns
    /\ ws' = connect([disconnect(ws) EXCEPT !.shouldConnectRef = TRUE,
                                            !.reruns = @ + 1], "effect")
    /\ HookOnly

NextWs ==
    \/ \E i \in DOMAIN ws.socks : OnOpen(i)
    \/ \E i \in DOMAIN ws.socks : OnClose(i)
    \/ \E t \in ws.timers : ReconnectTimer(t)
    \/ PageHidden
    \/ PageVisible
    \/ \E data \in MsgData : SendMessage(data)
    \/ Unmount
    \/ EffectRerun

\* The hook after its first effect: shouldConnectRef is set and connect()
\* has created the first socket.
InitWs ==
    /\ ws = connect([Idle_ws EXCEPT !.shouldConnectRef = TRUE,
                                    !.reconnectDelayRef = INITIAL_RECONNECT_DELAY],
                    "mount")
    /\ codec = Idle_codec
    /\ call = Idle_call
    /\ InitLink(0, 0, {}, {})
    /\ node = Idle_node
    /\ br = Idle_br
    /\ esp = Idle_esp

SpecWs == InitWs /\ [][NextWs]_vars

---------------------------------------------------------------------------
(* Properties of the hook.                                                *)

\* C29: every reconnect that a close schedules has a delay of at most 30 s:
\* 1 s when no reconnect was scheduled since a socket last opened (or since
\* the hook was mounted), and otherwise twice the delay of the reconnect
\* scheduled before it, cut at 30 s.
C29_Backoff ==
    [][
      ws'.nsched = ws.nsched + 1 =>
         /\ ws'.lastDelay <= MAX_RECONNECT_DELAY
         /\ ws'.lastDelay = (IF ws.lastDelay = 0 THEN INITIAL_RECONNECT_DELAY
                             ELSE Min(2 * ws.lastDelay, MAX_RECONNECT_DELAY))
    ]_vars

\* C30: the messages passed to sendMessage are, in the order they were
\* passed, those handed to send() followed by those still queued, and
\* nothing is left queued once the current socket is open.
C30_QueueKept ==
    /\ ws.delivered \o ws.messageQueueRef = ws.submitted
    /\ IsOpen(ws) => ws.messageQueueRef = <<>>

---------------------------------------------------------------------------
(* The AES-256-GCM command line tools (src/aes_gcm_encrypt.c and the      *)
(* aes_gcm_decrypt.c text).  Texts are sequences of character codes.      *)
(* OpenSSL is not part of the sources: its cipher is stood for by a       *)
(* counter-mode stream and a 16-byte tag that depend on key, nonce,       *)
(* additional data and ciphertext, which is what the tools rely on.       *)

\* from_hex: the value of a hex digit, -1 for any other character.
from_hex(c) ==
    IF c >= 48 /\ c <= 57 THEN c - 48
    ELSE IF c >= 97 /\ c <= 102 THEN c - 97 + 10
    ELSE IF c >= 65 /\ c <= 70 THEN c - 65 + 10
    ELSE -1

\* hex_decode: 0 for an odd length or a character that is no hex digit.
hex_decode(hex) ==
    LET n == Len(hex)
    IN  IF n % 2 # 0 THEN [ret |-> 0, out |-> <<>>]
        ELSE IF \E i \in 1..n : from_hex(hex[i]) < 0 THEN [ret |-> 0, out |-> <<>>]
        ELSE [ret |-> 1,
              out |-> [k \in 1..(n \div 2) |->
                         from_hex(hex[2 * k - 1]) * 16 + from_hex(hex[2 * k])]]

HexDigits == <<48, 49, 50, 51, 52, 53, 54, 55, 56, 57, 97, 98, 99, 100, 101, 102>>

\* hex_encode with the two digits of every byte exchanged.
hex_encode_swapped(buf) ==
    [i \in 1..(2 * Len(buf)) |->
        IF i % 2 = 1 THEN HexDigits[(buf[(i + 1) \div 2] % 16) + 1]
        ELSE HexDigits[(buf[(i + 1) \div 2] \div 16) + 1]]

\* hex_encode: two lower-case digits for every byte, high half first.
hex_encode(buf) ==
    [i \in 1..(2 * Len(buf)) |->
        IF i % 2 = 1 THEN HexDigits[(buf[(i + 1) \div 2] \div 16) + 1]
        ELSE HexDigits[(buf[(i + 1) \div 2] % 16) + 1]]

RECURSIVE read_all_stdin_text(_)
\* read_all_stdin_text: the text without the line ends, blanks and tabs at
\* its end.
read_all_stdin_text(text) ==
    IF text # <<>> /\ text[Len(text)] \in {10, 13, 32, 9}
    THEN read_all_stdin_text(SubSeq(text, 1, Len(text) - 1))
    ELSE text

\* The cipher of EVP_aes_256_gcm: byte i of the stream of (key, nonce), the
\* update that applies it, and the tag over additional data and ciphertext.
GcmStream(key, nonce, i) ==
    (key[((i - 1) % Len(key)) + 1] * 3 + nonce[((i - 1) % Len(nonce)) + 1] * 5 + i * 7) % 256
EVP_CipherUpdate(key, nonce, in) ==
    [i \in 1..Len(in) |-> Xor8(in[i], GcmStream(key, nonce, i))]
RECURSIVE SumBytes(_)
SumBytes(b) == IF b = <<>> THEN 0 ELSE Head(b) + SumBytes(Tail(b))
GCM_TAG_LEN == 16
GcmTag(key, nonce, aad, ct) ==
    [j \in 1..GCM_TAG_LEN |->
        (key[j] + nonce[((j - 1) % Len(nonce)) + 1] + j * (Len(ct) + SumBytes(ct))
         + 11 * SumBytes(aad) + Len(aad)) % 256]

AES_KEY_LEN == 32
GCM_NONCE_LEN == 12

\* What a run of a tool leaves: exit status and the bytes on its output.
Exit(status) == [status |-> status, stdout |-> <<>>, ct_hex |-> <<>>, tag_hex |-> <<>>]
TXT_CT == <<67, 73, 80, 72, 69, 82, 84, 69, 88, 84, 95, 72, 69, 88, 61>>
TXT_TAG == <<84, 65, 71, 95, 72, 69, 88, 61>>

\* main of aes_gcm_encrypt: argv is <<key hex, nonce hex>> or with the hex
\* of the additional data as third element; stdin is the plaintext.
aes_gcm_encrypt(argv, stdin) ==
    LET key == hex_decode(argv[1])
        nonce == hex_decode(argv[2])
        aad == IF Len(argv) = 3 THEN hex_decode(argv[3]) ELSE [ret |-> 1, out |-> <<>>]
    IN  IF Len(argv) < 2 \/ Len(argv) > 3 THEN Exit(1)
        ELSE IF key.ret = 0 \/ Len(key.out) # AES_KEY_LEN THEN Exit(1)
        ELSE IF nonce.ret = 0 \/ Len(nonce.out) # GCM_NONCE_LEN THEN Exit(1)
        ELSE IF aad.ret = 0 THEN Exit(1)
        ELSE LET ct == EVP_CipherUpdate(key.out, nonce.out, stdin)
                 tag == GcmTag(key.out, nonce.out, aad.out, ct)
                 ct_hex == hex_encode(ct)
                 tag_hex == hex_encode(tag)
             IN  [status |-> 0,
                  stdout |-> TXT_CT \o ct_hex \o <<CH_LF>> \o TXT_TAG \o tag_hex \o <<CH_LF>>,
                  ct_hex |-> ct_hex, tag_hex |-> tag_hex]

\* aes_gcm_decrypt that writes the plaintext before the tag is checked.
aes_gcm_decrypt_early(argv, stdin) ==
    LET key == hex_decode(argv[1])
        nonce == hex_decode(argv[2])
        tag == hex_decode(argv[3])
        aad == IF Len(argv) = 4 THEN hex_decode(argv[4]) ELSE [ret |-> 1, out |-> <<>>]
        ct == hex_decode(read_all_stdin_text(stdin))
    IN  IF Len(argv) < 3 \/ Len(argv) > 4 THEN Exit(1)
        ELSE IF key.ret = 0 \/ Len(key.out) # AES_KEY_LEN THEN Exit(1)
        ELSE IF nonce.ret = 0 \/ Len(nonce.out) # GCM_NONCE_LEN THEN Exit(1)
        ELSE IF tag.ret = 0 \/ Len(tag.out) # GCM_TAG_LEN THEN Exit(1)
        ELSE IF aad.ret = 0 THEN Exit(1)
        ELSE IF ct.ret = 0 THEN Exit(1)
        ELSE LET pt == EVP_CipherUpdate(key.out, nonce.out, ct.out)
             IN  IF tag.out # GcmTag(key.out, nonce.out, aad.out, ct.out)
                 THEN [Exit(2) EXCEPT !.stdout = pt \o <<CH_LF>>]
                 ELSE [Exit(0) EXCEPT !.stdout = pt \o <<CH_LF>>]

\* main of aes_gcm_decrypt: argv is <<key hex, nonce hex, tag hex>> or with
\* the hex of the additional data as fourth element; stdin is the
\* ciphertext hex. The plaintext is written, with a line feed after it,
\* only when EVP_DecryptFinal_ex has accepted the tag.
aes_gcm_decrypt(argv, stdin) ==
    LET key == hex_decode(argv[1])
        nonce == hex_decode(argv[2])
        tag == hex_decode(argv[3])
        aad == IF Len(argv) = 4 THEN hex_decode(argv[4]) ELSE [ret |-> 1, out |-> <<>>]
        ct == hex_decode(read_all_stdin_text(stdin))
    IN  IF Len(argv) < 3 \/ Len(argv) > 4 THEN Exit(1)
        ELSE IF key.ret = 0 \/ Len(key.out) # AES_KEY_LEN THEN Exit(1)
        ELSE IF nonce.ret = 0 \/ Len(nonce.out) # GCM_NONCE_LEN THEN Exit(1)
        ELSE IF tag.ret = 0 \/ Len(tag.out) # GCM_TAG_LEN THEN Exit(1)
        ELSE IF aad.ret = 0 THEN Exit(1)
        ELSE IF ct.ret = 0 THEN Exit(1)
        ELSE LET pt == EVP_CipherUpdate(key.out, nonce.out, ct.out)
             IN  IF tag.out # GcmTag(key.out, nonce.out, aad.out, ct.out)
                 THEN Exit(2)
                 ELSE [Exit(0) EXCEPT !.stdout = pt \o <<CH_LF>>]

\* Keys, nonces, additional data and plaintexts of the runs.
KeyTexts == {hex_encode([i \in 1..AES_KEY_LEN |-> (17 * i) % 256]),
             [i \in 1..(2 * AES_KEY_LEN) |-> IF i % 2 = 1 THEN 65 ELSE 57]}
NonceTexts == {hex_encode([i \in 1..GCM_NONCE_LEN |-> (i * 23) % 256])}
AadArgs == {<<>>, <<hex_encode(<<170, 1>>)>>}
Plaintexts == {<<>>, <<72, 105>>, <<0, 255, 16>>, <<65, CH_LF>>, <<123, 125, 32>>}
\* What follows the ciphertext hex on the input of aes_gcm_decrypt.
LineEnds == {<<>>, <<CH_LF>>, <<CH_CR, CH_LF>>}

\* Tag texts that are not the tag of the encryption: a digit changed, the
\* last byte left out, a character that is no hex digit.
OtherTags(tag_hex) ==
    {[tag_hex EXCEPT ![k] = IF @ = 48 THEN 49 ELSE 48] : k \in {1, 2, Len(tag_hex)}}
    \cup {SubSeq(tag_hex, 1, Len(tag_hex) - 2), [tag_hex EXCEPT ![1] = 103]}

AesInputs ==
    {[fn |-> "aes_gcm", key |-> k, nonce |-> n, aad |-> a, pt |-> p,
      enc |-> Exit(-1), dec |-> Exit(-1), tag |-> <<>>, done |-> 0] :
        k \in KeyTexts, n \in NonceTexts, a \in AadArgs, p \in Plaintexts}

AesOnly == UNCHANGED <<up, uart_rx, rx, words, reads, line, call, esp, br, node, ws>>

\* A run of aes_gcm_encrypt on the plaintext.
RunEncrypt ==
    /\ codec.fn = "aes_gcm" /\ codec.done = 0
    /\ codec' = [codec EXCEPT !.done = 1,
                   !.enc = aes_gcm_encrypt(<<codec.key, codec.nonce>> \o codec.aad, codec.pt)]
    /\ AesOnly

\* A run of aes_gcm_decrypt on the ciphertext hex the encryption printed,
\* with the tag it printed (in either case of the letters) or another tag.
RunDecrypt ==
    /\ codec.fn = "aes_gcm" /\ codec.done = 1 /\ codec.enc.status = 0
    /\ \E tag \in {codec.enc.tag_hex,
                   [i \in DOMAIN codec.enc.tag_hex |->
                       IF codec.enc.tag_hex[i] >= 97 THEN codec.enc.tag_hex[i] - 32
                       ELSE codec.enc.tag_hex[i]]}
                  \cup OtherTags(codec.enc.tag_hex),
          end \in LineEnds :
         codec' = [codec EXCEPT !.done = 2, !.tag = tag,
                     !.dec = aes_gcm_decrypt(<<codec.key, codec.nonce, tag>> \o codec.aad,
                                             codec.enc.ct_hex \o end)]
    /\ AesOnly

NextAes ==
    \/ RunEncrypt
    \/ RunDecrypt

InitAes ==
    /\ codec \in AesInputs
    /\ call = Idle_call
    /\ InitLink(0, 0, {}, {})
    /\ ws = Idle_ws
    /\ node = Idle_node
    /\ br = Idle_br
    /\ esp = Idle_esp

SpecAes == InitAes /\ [][NextAes]_vars

\* The tag given to the decryption is the tag the encryption produced.
SameTag == hex_decode(codec.tag) = hex_decode(codec.enc.tag_hex)

\* C31 as stated: with the ciphertext hex and tag hex of the encryption,
\* aes_gcm_decrypt exits with status 0 and its output is exactly the
\* plaintext.
C31_ExactPlaintext ==
    (codec.fn = "aes_gcm" /\ codec.done = 2 /\ SameTag) =>
        (codec.dec.status = 0 /\ codec.dec.stdout = codec.pt)

\* C31: with the ciphertext hex and tag hex of the encryption, the same key
\* and nonce, aes_gcm_decrypt exits with status 0 and its output is the
\* plaintext followed by one line feed; hex_decode of hex_encode of the
\* bytes is the bytes.
C31_RoundTrip ==
    (codec.fn = "aes_gcm" /\ codec.done = 2 /\ SameTag) =>
        /\ codec.dec.status = 0
        /\ codec.dec.stdout = codec.pt \o <<CH_LF>>
        /\ hex_decode(hex_encode(codec.pt)) = [ret |-> 1, out |-> codec.pt]
        /\ hex_decode(codec.enc.ct_hex).out = EVP_CipherUpdate(
               hex_decode(codec.key).out, hex_decode(codec.nonce).out, codec.pt)

\* A plaintext that ends in a line feed came back with a second one.
C31_Witness ==
    /\ codec.fn = "aes_gcm" /\ codec.done = 2 /\ SameTag
    /\ codec.pt = <<65, CH_LF>>
    /\ codec.dec.status = 0
    /\ codec.dec.stdout = <<65, CH_LF, CH_LF>>

\* C32: when the tag given to aes_gcm_decrypt is not the tag the encryption
\* produced, it exits with a status that is not 0 and writes nothing to its
\* output.
C32_BadTagFails ==
    (codec.fn = "aes_gcm" /\ codec.done = 2 /\ ~SameTag) =>
        (codec.dec.status # 0 /\ codec.dec.stdout = <<>>)

\* A tag with one digit changed was refused by the final step.
C32_Witness ==
    /\ codec.fn = "aes_gcm" /\ codec.done = 2
    /\ Len(codec.tag) = 2 * GCM_TAG_LEN
    /\ hex_decode(codec.tag).ret = 1
    /\ ~SameTag
    /\ codec.pt # <<>>
    /\ codec.dec.status = 2

---------------------------------------------------------------------------
(* The id of Pose, Query and System commands.                             *)

\* The bits of the id field of the word of a command type.
IdBits(t) == IF t = "S" THEN 11 ELSE 12

\* C33: a Pose, Query or System command whose other fields are in order is
\* accepted (no ERR message is sent for it) exactly when its
\* id is a number that fits the id field of its word: 0..4095 for Pose and
\* Query (12 bits), 0..2047 for System (11 bits).
C33_IdFitsField ==
    call.done =>
        \A t \in {"P", "Q", "S"} :
            LET j == call.json
                others == [j EXCEPT !.f["id"] = JNum(0)]
                fits == InRange(j.f["id"], 0, (2^IdBits(t)) - 1)
                accepted == \A k \in DOMAIN call.uds : call.uds[k].json \notin ErrMessages
            IN  (IsType(j, t) /\ ~HasBadField(others)) => (accepted <=> fits)

\* C34: no instruction line (65 bytes) is written to the serial device
\* inside the RN-42 sequence: every such line comes after the last write
\* of the sequence; and the sequence has been run before anything is read
\* from the first client.
C34_SequenceFirst ==
    LET s == br.serial
        lines == {k \in DOMAIN s : Len(s[k].buf) = UART_LINE_LEN}
        last_of_sequence == IF s # <<>> /\ s[1] = [buf |-> RN42_ENTER, n |-> 3]
                            THEN 3 ELSE 1
    IN  /\ \A k \in lines : s[1].buf = RN42_ENTER /\ k > last_of_sequence
        /\ (br.handled # <<>> \/ br.pc \in {"select", "uds", "uart"}) =>
              /\ br.bt_connect_attempted = 1
              /\ Len(s) >= last_of_sequence
              /\ s[1].buf = RN42_ENTER

\* The messages of the first client were handled and the line of its
\* Control command is the first write after the three of the sequence.
C34_Witness ==
    /\ br.handled # <<>>
    /\ \A k \in DOMAIN br.handled : br.handled[k].client = 1
    /\ Len(br.serial) = 4
    /\ br.serial[3].buf = RN42_EXIT
    /\ br.serial[4].buf = ControlLine.buf

---------------------------------------------------------------------------
(* The command queue between bt_spp_cb and cmd_parser_task: more lines     *)
(* than the queue has places, delivered in data events of any size while   *)
(* the task takes commands at any pace.                                    *)

MaxLines == 12

RECURSIVE BinText(_)
\* The '0'/'1' text of i > 0, most significant digit first.
BinText(i) ==
    IF i = 0 THEN <<>>
    ELSE Append(BinText(i \div 2), IF i % 2 = 1 THEN CH_1 ELSE CH_0)

RECURSIVE LinesAir(_)
\* Lines 1..n, each ended by a carriage return.
LinesAir(n) ==
    IF n = 0 THEN <<>>
    ELSE LinesAir(n - 1) \o BinText(n) \o <<CH_CR>>

\* The number of lines the callback has been given in full.
LinesReceived(e) ==
    LET all == LinesAir(e.lines)
        used == Len(all) - Len(e.air)
    IN  Cardinality({j \in 1..used : all[j] = CH_CR})

InitQueue ==
    /\ esp \in {[Idle_esp EXCEPT !.air = LinesAir(n), !.lines = n] :
                  n \in (CMD_QUEUE_LEN + 1)..MaxLines}
    /\ codec = Idle_codec
    /\ call = Idle_call
    /\ InitLink(0, 0, {}, {})
    /\ ws = Idle_ws
    /\ node = Idle_node
    /\ br = Idle_br

SpecQueue == InitQueue /\ [][NextEsp]_vars

\* The commands handed over so far, processed ones first.
HandedOver == esp.taken \o esp.cmd_queue

\* C35: commands pass from the receive callback to cmd_parser_task through
\* a queue of 10 places: the task processes them in the order their lines
\* came and each enqueued one once, the callback always returns, and a line
\* completed while 10 commands are pending is dropped and leaves the pending
\* ones as they are.
C35_QueueHandOff ==
    /\ [](/\ Len(esp.cmd_queue) <= CMD_QUEUE_LEN
          /\ \A j \in 1..Len(HandedOver) :
                /\ ValOf(HandedOver[j]) \in 1..LinesReceived(esp)
                /\ \A k \in 1..(j - 1) :
                      ValOf(HandedOver[k]) < ValOf(HandedOver[j]))
    /\ [][/\ (esp'.air # esp.air /\ LinesReceived(esp') = LinesReceived(esp) + 1) =>
                /\ esp'.taken = esp.taken
                /\ esp'.cmd_queue =
                      IF Len(esp.cmd_queue) < CMD_QUEUE_LEN
                      THEN Append(esp.cmd_queue, U64(LinesReceived(esp')))
                      ELSE esp.cmd_queue
          /\ (esp'.air # esp.air /\ LinesReceived(esp') = LinesReceived(esp)) =>
                /\ esp'.taken = esp.taken
                /\ esp'.cmd_queue = esp.cmd_queue
          /\ (esp'.air = esp.air /\ esp' # esp) =>
                /\ esp.cmd_queue # <<>>
                /\ esp'.taken = Append(esp.taken, Head(esp.cmd_queue))
                /\ esp'.cmd_queue = Tail(esp.cmd_queue)
          /\ (esp.air # <<>>) => ENABLED SppDataInd(1)]_vars

\* Line 11 came while 10 commands were pending and was dropped; the task
\* then took one and line 12 found a place.
C35_Witness ==
    /\ esp.lines = 12
    /\ esp.air = <<>>
    /\ esp.taken = <<U64(1)>>
    /\ esp.cmd_queue = [j \in 1..CMD_QUEUE_LEN |->
                          U64(IF j < CMD_QUEUE_LEN THEN j + 1 ELSE 12)]

\* The sockets of the hook that are connecting or open.
LiveSockets == {i \in DOMAIN ws.socks : ws.socks[i] \in {"CONNECTING", "OPEN"}}

\* C36: the hook never has more than one WebSocket that is connecting or
\* open, and never more than one pending reconnect timer.
C36_OneSocketOneTimer ==
    /\ Cardinality(LiveSockets) <= 1
    /\ Cardinality(ws.timers) <= 1

---------------------------------------------------------------------------
(* The step output of one stepper motor: motor_pulse, called by            *)
(* cmd_parser_task on core 1, and motor_stop_callback, run by the timer    *)
(* task when the stop timer expires. In this specification esp holds the   *)
(* motor: pc is the place of the caller inside motor_pulse, cb the place   *)
(* of the timer task inside the callback, duty the value given to          *)
(* ledc_set_duty, out the duty the channel puts out after                  *)
(* ledc_update_duty, armed and left the stop timer.                        *)

STEPPER_LEDC_DUTY == 128
PULSE_DURATION_US == 60000
MOTOR_IDLE == 1
MOTOR_RUNNING == 2

MaxTicks == 3          \* steps of time the 60 ms are divided into

\* The microseconds of one step of time.
TickUs == PULSE_DURATION_US \div MaxTicks

\* What the parser task can pass as speed (7 bits of the instruction).
Speeds == {0, 1, 50, 100, 127}

map_speed_to_hz(speed) ==
    IF speed <= 0 THEN 0
    ELSE IF speed = 1 THEN 200
    ELSE IF speed >= 100 THEN 3000
    ELSE 200 + ((speed - 1) * (3000 - 200)) \div (100 - 1)

\* The motor after motor_init: the channel puts out duty 0 and the stop
\* timer is created, not started.
Idle_motor == [pc |-> "idle", cb |-> "none", freq_hz |-> 0, dir |-> 0,
               status |-> MOTOR_IDLE, duty |-> 0, out |-> 0,
               armed |-> FALSE, left |-> 0, since |-> 0]

MotorOnly == UNCHANGED <<codec, up, uart_rx, rx, words, reads, line, call, br, node, ws>>

\* motor_pulse is called: the frequency is computed and the direction set.
MotorPulse(speed, dir) ==
    /\ esp.pc = "idle"
    /\ esp' = [esp EXCEPT !.pc = "esp_timer_stop",
                          !.freq_hz = map_speed_to_hz(speed),
                          !.dir = dir]
    /\ MotorOnly

\* esp_timer_stop(motor->stop_timer): a started timer is stopped; a timer
\* whose callback has been dispatched is not started, and nothing happens.
EspTimerStop ==
    /\ esp.pc = "esp_timer_stop"
    /\ esp' = [esp EXCEPT !.pc = "ledc_set_duty",
                          !.armed = FALSE,
                          !.left = 0,
                          !.status = IF esp.freq_hz = 0 THEN MOTOR_IDLE ELSE @]
    /\ MotorOnly

\* ledc_set_freq and ledc_set_duty of motor_pulse.
PulseSetDuty ==
    /\ esp.pc = "ledc_set_duty"
    /\ esp' = [esp EXCEPT !.pc = "ledc_update_duty",
                          !.duty = IF esp.freq_hz = 0 THEN 0 ELSE STEPPER_LEDC_DUTY]
    /\ MotorOnly

\* ledc_update_duty of motor_pulse; with speed 0 the function returns.
PulseUpdateDuty ==
    /\ esp.pc = "ledc_update_duty"
    /\ esp' = [esp EXCEPT !.pc = IF esp.freq_hz = 0 THEN "idle"
                                 ELSE "esp_timer_start_once",
                          !.out = esp.duty]
    /\ MotorOnly

\* esp_timer_start_once(motor->stop_timer, PULSE_DURATION_US), and the
\* function returns.
EspTimerStartOnce ==
    /\ esp.pc = "esp_timer_start_once"
    /\ esp' = [esp EXCEPT !.pc = "idle",
                          !.status = MOTOR_RUNNING,
                          !.armed = TRUE,
                          !.left = PULSE_DURATION_US,
                          !.since = 0]
    /\ MotorOnly

\* Time passes: TickUs microseconds, or what is left of the timer.
Tick ==
    /\ esp.armed /\ esp.left > 0
    /\ esp' = [esp EXCEPT !.left = @ - Min(@, TickUs), !.since = @ + Min(esp.left, TickUs)]
    /\ MotorOnly

\* The stop timer expires and the timer task starts its callback.
TimerExpires ==
    /\ esp.armed /\ esp.left = 0
    /\ esp.cb = "none"
    /\ esp' = [esp EXCEPT !.armed = FALSE, !.cb = "ledc_set_duty"]
    /\ MotorOnly

\* motor_stop_callback: ledc_set_duty(..., 0), then ledc_update_duty.
CallbackSetDuty ==
    /\ esp.cb = "ledc_set_duty"
    /\ esp' = [esp EXCEPT !.cb = "ledc_update_duty", !.duty = 0]
    /\ MotorOnly

CallbackUpdateDuty ==
    /\ esp.cb = "ledc_update_duty"
    /\ esp' = [esp EXCEPT !.cb = "none", !.out = esp.duty]
    /\ MotorOnly

NextMotor ==
    \/ \E speed \in Speeds, dir \in {0, 1} : MotorPulse(speed, dir)
    \/ EspTimerStop
    \/ PulseSetDuty
    \/ PulseUpdateDuty
    \/ EspTimerStartOnce
    \/ Tick
    \/ TimerExpires
    \/ CallbackSetDuty
    \/ CallbackUpdateDuty

InitMotor ==
    /\ esp = Idle_motor
    /\ codec = Idle_codec
    /\ call = Idle_call
    /\ InitLink(0, 0, {}, {})
    /\ ws = Idle_ws
    /\ node = Idle_node
    /\ br = Idle_br

SpecMotor == InitMotor /\ [][NextMotor]_vars

\* C37: from the return of motor_pulse with a speed above 0 until the stop
\* timer that call started expires, the step output is active; each such
\* call starts the 60 ms again; a stop callback of an earlier pulse does not
\* switch the output off after the newer call has switched it on.
C37_ActiveUntilStop ==
    /\ esp.armed => (esp.out = STEPPER_LEDC_DUTY /\ esp.since + esp.left = PULSE_DURATION_US)
    /\ (esp.pc = "esp_timer_start_once" /\ esp.cb = "none") =>
           esp.out = STEPPER_LEDC_DUTY

====
